---- MODULE Spec2Model ----
(***************************************************************************)
(* Model of the server side of git-commit-coupling-visualizer:            *)
(* src/server/readGitFiles/readGitFiles.ts (getGitTrackedFiles,            *)
(* getGitHistory, getRepoStatsInD3CompatibleFormat, getGitRepoUrl), the    *)
(* later version of that module that reads visualizerConfig,               *)
(* src/server/server.ts (the request handler with its routes, the signal   *)
(* handlers and shutdown), src/server/openInCodeEditor/openInCodeEditor.ts *)
(* and the tree src/client/CircleDiagram.tsx rebuilds from a response.     *)
(*                                                                         *)
(* A JavaScript string is a sequence of one-character strings, except that *)
(* a commit hash, an ISO date, an author name and the record marker        *)
(* "--COMMIT--" are each one token: none of them can be produced by        *)
(* concatenating other tokens, so String.split / includes / trim on the    *)
(* token sequence behave as they do on the characters.                     *)
(***************************************************************************)
EXTENDS Integers, Sequences, FiniteSets, TLC

VARIABLES
    repoState,       \* "missing" | "plain" | "git": no such path, a directory
                     \* that is no repository, a repository
    gitIndex,        \* the paths `git ls-files` prints, in index order
    excludeFilters,  \* argument of getGitTrackedFiles
    trackedResult,   \* outcome of the last getGitTrackedFiles call
    gitLog,          \* the commits `git log` walks, newest first
    includedFiles,   \* argument of getGitHistory
    historyResult,   \* outcome of the last getGitHistory call
    execSyncCalls,   \* number of `git log` subprocesses started so far
    workTree,        \* the files on disk: path |-> number of lines
    config,          \* the AnalyzerConfig passed to getRepoStatsInD3CompatibleFormat
    statsResult,     \* outcome of the last getRepoStatsInD3CompatibleFormat call
    visualizerConfig,\* the process-global configuration object of visualizerConfig.ts
    remoteUrl,       \* the URL of the remote origin, or NoRemote
    repoUrlResult,   \* outcome of the last getGitRepoUrl call
    requests,        \* the requests the server has received
    process,         \* the server process: its listening server, its shutdown
                     \* in progress and its exit code
    rootTree         \* the tree the client has rebuilt from a response

\* The state of the HTTP server process and of the remote configuration.
serverVars == <<visualizerConfig, remoteUrl, repoUrlResult, requests, process,
               rootTree>>

vars == <<repoState, gitIndex, excludeFilters, trackedResult, gitLog,
          includedFiles, historyResult, execSyncCalls, workTree, config,
          statsResult, visualizerConfig, remoteUrl, repoUrlResult, requests,
          process, rootTree>>

-----------------------------------------------------------------------------
(* Bounds of the model.                                                    *)

MaxCommits == 2
MaxLogLines == 3
MaxFiles == 3
MaxFilters == 2
MaxStatsCommits == 2
MaxThreshold == 2
MaxCalls == 2
MaxUrlTokens == 3
MaxRequests == 2

-----------------------------------------------------------------------------
(* JavaScript string and array primitives.                                 *)

\* The value of a destructured element or field that is not there.
Undefined == <<"undefined">>

\* Number.NaN, the result of new Date(garbage).getTime().
NaN == -1

WhiteSpace == {" ", "\n", "\t"}

\* Array.prototype.reverse
Reverse(s) == [i \in 1..Len(s) |-> s[Len(s) + 1 - i]]

\* The elements of an array, as a set.
Range(s) == {s[i] : i \in 1..Len(s)}

RECURSIVE Split(_, _)
\* String.prototype.split with a one-token separator.
Split(s, sep) ==
    IF \A i \in 1..Len(s) : s[i] # sep
    THEN <<s>>
    ELSE LET i == CHOOSE k \in 1..Len(s) :
                      s[k] = sep /\ \A j \in 1..(k - 1) : s[j] # sep
         IN  <<SubSeq(s, 1, i - 1)>> \o Split(SubSeq(s, i + 1, Len(s)), sep)

RECURSIVE TrimStart(_)
TrimStart(s) ==
    IF s # <<>> /\ Head(s) \in WhiteSpace THEN TrimStart(Tail(s)) ELSE s

\* String.prototype.trim
Trim(s) == Reverse(TrimStart(Reverse(TrimStart(s))))

\* String.prototype.includes
Includes(s, sub) ==
    \E i \in 0..(Len(s) - Len(sub)) : SubSeq(s, i + 1, i + Len(sub)) = sub

RECURSIVE Join(_, _)
\* Array.prototype.join
Join(ss, sep) ==
    IF ss = <<>> THEN <<>>
    ELSE IF Len(ss) = 1 THEN ss[1]
    ELSE ss[1] \o sep \o Join(Tail(ss), sep)

\* Array destructuring: the k-th element, or undefined.
At(a, k) == IF k <= Len(a) THEN a[k] ELSE Undefined

\* !value for a string or undefined value.
Falsy(v) == v = Undefined \/ v = <<>>

\* The outcome of a call that has not been made.
NoCall == [outcome |-> "none"]

\* No remote named origin is configured.
NoRemote == <<"no such remote">>

\* The server process once server.ts has been evaluated: the server listens,
\* shuttingDown is false, no signal has been received, server.close has not
\* been called and process.exit has not been called.
NewProcess ==
    [shuttingDown |-> FALSE, signals |-> <<>>, closeCalls |-> 0,
     closing |-> "no", exitCode |-> <<>>]

-----------------------------------------------------------------------------
(* The repository as git reports it (the environment of the program).      *)

Marker == "--COMMIT--"

\* Author dates as `%aI` prints them; the n-th one is n seconds after the
\* epoch.
IsoDates == <<"1970-01-01T00:00:01+00:00", "1970-01-01T00:00:02+00:00">>

\* Milliseconds in a second.
Second == 1000

\* One line of `git log --name-status`: the status, then one path (A, M, D,
\* T) or two (R<score>, C<score>: the old path, then the new one).
StatusLine(change) ==
    <<change.status>> \o <<"\t">> \o Join(change.paths, <<"\t">>) \o <<"\n">>

RECURSIVE StatusLines(_)
StatusLines(changes) ==
    IF changes = <<>> THEN <<>>
    ELSE StatusLine(Head(changes)) \o StatusLines(Tail(changes))

\* What `--pretty=format:"--COMMIT--%n%H|%an|%aI|%s"` with --name-status
\* prints for one commit.
LogEntry(c) ==
    <<Marker, "\n", c.hash, "|">> \o c.author \o <<"|", c.date, "|">>
        \o c.subject \o <<"\n">> \o StatusLines(c.changes)

RECURSIVE GitLogOutput(_)
\* stdout of the git log command: the entries, newest first, one blank line
\* between two entries.
GitLogOutput(log) ==
    IF log = <<>> THEN <<>>
    ELSE IF Len(log) = 1 THEN LogEntry(log[1])
    ELSE LogEntry(log[1]) \o <<"\n">> \o GitLogOutput(Tail(log))

\* The characters outside ASCII that paths are made of, each one token.
EnDash == "<U+2013 en dash>"
EAcute == "<U+00E9 e with acute>"

\* The octal escapes of their UTF-8 bytes, as git prints them.
OctalEscape == [ch \in {EnDash, EAcute} |->
                   IF ch = EnDash THEN "\\342\\200\\223" ELSE "\\303\\251"]

\* A path as git prints it (core.quotePath): as it is when it is plain ASCII,
\* else between double quotes with every byte outside ASCII escaped.
QuotePath(p) ==
    IF \A i \in 1..Len(p) : p[i] \notin DOMAIN OctalEscape
    THEN p
    ELSE <<"\"">>
         \o [i \in 1..Len(p) |->
                IF p[i] \in DOMAIN OctalEscape THEN OctalEscape[p[i]] ELSE p[i]]
         \o <<"\"">>

RECURSIVE LsFilesOutput(_)
\* stdout of `git ls-files`: one line per index entry.
LsFilesOutput(index) ==
    IF index = <<>> THEN <<>>
    ELSE QuotePath(Head(index)) \o <<"\n">> \o LsFilesOutput(Tail(index))

-----------------------------------------------------------------------------
(* getGitTrackedFiles                                                      *)

\* getGitTrackedFiles with `every` in place of `some`: a file is dropped only
\* if it contains all the filters.
GetGitTrackedFilesEvery(repo, index, filters) ==
    IF repo # "git"
    THEN [outcome |-> "threw", files |-> <<>>]
    ELSE LET files == SelectSeq(Split(LsFilesOutput(index), "\n"),
                                LAMBDA f : f # <<>>)
         IN  [outcome |-> "returned",
              files |-> SelectSeq(files, LAMBDA filePath :
                            ~(\A k \in 1..Len(filters) :
                                  Includes(filePath, filters[k])))]

\* getGitTrackedFiles(repoPath, excludeFilters): the outcome and the value
\* returned.
GetGitTrackedFiles(repo, index, filters) ==
    IF repo # "git"
    THEN [outcome |-> "threw", files |-> <<>>]
    ELSE LET files == SelectSeq(Split(LsFilesOutput(index), "\n"),
                                LAMBDA f : f # <<>>)
         IN  IF Len(filters) = 0
             THEN [outcome |-> "returned", files |-> files]
             ELSE [outcome |-> "returned",
                   files |-> SelectSeq(files, LAMBDA filePath :
                                 ~(\E k \in 1..Len(filters) :
                                       Includes(filePath, filters[k])))]

-----------------------------------------------------------------------------
(* getGitHistory                                                           *)

\* new Date(isoDate).getTime()
DateGetTime(isoDate) ==
    IF Len(isoDate) = 1 /\ \E n \in 1..Len(IsoDates) : IsoDates[n] = isoDate[1]
    THEN Second * (CHOOSE n \in 1..Len(IsoDates) : IsoDates[n] = isoDate[1])
    ELSE NaN

RECURSIVE MatchingFilesUnfiltered(_, _)
\* MatchingFiles without the includedFileSet.has(filePath) test.
MatchingFilesUnfiltered(fileLines, includedFileSet) ==
    IF fileLines = <<>> THEN <<>>
    ELSE LET parts == Split(Head(fileLines), "\t")
             rest == MatchingFilesUnfiltered(Tail(fileLines), includedFileSet)
         IN  IF Falsy(At(parts, 2)) \/ At(parts, 1) = <<"D">> THEN rest
             ELSE <<At(parts, 2)>> \o rest

RECURSIVE MatchingFiles(_, _)
\* The loop over the status lines of one entry.
MatchingFiles(fileLines, includedFileSet) ==
    IF fileLines = <<>> THEN <<>>
    ELSE LET parts == Split(Head(fileLines), "\t")
             status == At(parts, 1)
             filePath == At(parts, 2)
             rest == MatchingFiles(Tail(fileLines), includedFileSet)
         IN  IF Falsy(filePath) \/ status = <<"D">> THEN rest
             ELSE IF filePath \in includedFileSet THEN <<filePath>> \o rest
             ELSE rest

RECURSIVE ParseEntries(_, _)
\* The loop over the entries: the commits pushed, in log order.
ParseEntries(entries, includedFileSet) ==
    IF entries = <<>> THEN <<>>
    ELSE LET lines == Split(Trim(Head(entries)), "\n")
             headerLine == Head(lines)
             fileLines == Tail(lines)
             fields == Split(headerLine, "|")
             matchingFiles == MatchingFiles(fileLines, includedFileSet)
             rest == ParseEntries(Tail(entries), includedFileSet)
         IN  IF matchingFiles = <<>> THEN rest
             ELSE <<[commitHash |-> At(fields, 1),
                     authorName |-> At(fields, 2),
                     date |-> DateGetTime(At(fields, 3)),
                     changedFiles |-> matchingFiles,
                     comment |-> At(fields, 4)]>> \o rest

\* The parsing part of getGitHistory: from the raw output to the value returned.
ParseGitLog(rawOutput, files) ==
    LET entries == SelectSeq(Split(rawOutput, Marker), LAMBDA e : Trim(e) # <<>>)
    IN  Reverse(ParseEntries(entries, Range(files)))

\* getGitHistory without the early return for an empty includedFiles.
GetGitHistoryNoEarlyReturn(repo, files, log) ==
    IF repo = "missing"
    THEN [outcome |-> "threw", commits |-> <<>>, spawned |-> 0]
    ELSE IF repo # "git" \/ log = <<>>
    THEN [outcome |-> "threw", commits |-> <<>>, spawned |-> 1]
    ELSE [outcome |-> "returned",
          commits |-> ParseGitLog(GitLogOutput(log), files),
          spawned |-> 1]

\* getGitHistory(repoPath, includedFiles): the outcome, the value returned and
\* the number of git log subprocesses it started. git log exits with an error,
\* and execSync throws, in a directory that is no repository and in a
\* repository without any commit.
GetGitHistory(repo, files, log) ==
    IF repo = "missing"
    THEN [outcome |-> "threw", commits |-> <<>>, spawned |-> 0]
    ELSE IF Len(files) = 0
    THEN [outcome |-> "returned", commits |-> <<>>, spawned |-> 0]
    ELSE IF repo # "git" \/ log = <<>>
    THEN [outcome |-> "threw", commits |-> <<>>, spawned |-> 1]
    ELSE [outcome |-> "returned",
          commits |-> ParseGitLog(GitLogOutput(log), files),
          spawned |-> 1]

-----------------------------------------------------------------------------
(* getRepoStatsInD3CompatibleFormat: statistics of one file                *)

\* recentlyChangedTogetherMap after one more co-change with changedFile: a Map
\* keeps its keys in insertion order.
CountCoChange(map, changedFile) ==
    IF \E i \in 1..Len(map) : map[i].filePath = changedFile
    THEN [i \in 1..Len(map) |->
              IF map[i].filePath = changedFile
              THEN [filePath |-> changedFile, count |-> map[i].count + 1]
              ELSE map[i]]
    ELSE Append(map, [filePath |-> changedFile, count |-> 1])

RECURSIVE CoChangesCountingSelf(_, _, _)
\* The inner forEach without the empty block for the file itself.
CoChangesCountingSelf(map, changedFiles, path) ==
    IF changedFiles = <<>> THEN map
    ELSE CoChangesCountingSelf(CountCoChange(map, Head(changedFiles)),
                               Tail(changedFiles), path)

RECURSIVE CoChanges(_, _, _)
\* The inner forEach over commit.changedFiles.
CoChanges(map, changedFiles, path) ==
    IF changedFiles = <<>> THEN map
    ELSE IF Head(changedFiles) = path
    THEN CoChanges(map, Tail(changedFiles), path)
    ELSE CoChanges(CountCoChange(map, Head(changedFiles)), Tail(changedFiles), path)

\* Array push of a value the array does not include yet.
PushUnique(a, v) == IF v \in Range(a) THEN a ELSE Append(a, v)

RECURSIVE Accumulate(_, _, _, _)
\* The forEach over gitHistory for one file: acc holds historyForThisFile,
\* uniqueContributors, recentContributors and recentlyChangedTogetherMap.
Accumulate(acc, gitHistory, path, recentCutoff) ==
    IF gitHistory = <<>> THEN acc
    ELSE LET commit == Head(gitHistory)
             isRecent == commit.date # NaN /\ commit.date > recentCutoff
             next ==
                 IF path \notin Range(commit.changedFiles) THEN acc
                 ELSE [gitHistory |-> Append(acc.gitHistory, commit),
                       contributors |-> PushUnique(acc.contributors, commit.authorName),
                       recentContributors |->
                           IF isRecent
                           THEN PushUnique(acc.recentContributors, commit.authorName)
                           ELSE acc.recentContributors,
                       recentlyChangedTogether |->
                           IF isRecent
                           THEN CoChanges(acc.recentlyChangedTogether,
                                          commit.changedFiles, path)
                           ELSE acc.recentlyChangedTogether]
         IN  Accumulate(next, Tail(gitHistory), path, recentCutoff)

RECURSIVE MaxCount(_)
\* Math.max(...recentlyChangedTogether.map((changes) => changes.count))
MaxCount(changes) ==
    IF Len(changes) = 1 THEN changes[1].count
    ELSE LET m == MaxCount(Tail(changes))
         IN  IF changes[1].count > m THEN changes[1].count ELSE m

RECURSIVE SumCount(_)
SumCount(changes) ==
    IF changes = <<>> THEN 0 ELSE changes[1].count + SumCount(Tail(changes))

\* mostChanges as the sum of the counts instead of the largest one.
MostChangesSummed(recentlyChangedTogether) == SumCount(recentlyChangedTogether)

\* mostChanges
MostChanges(recentlyChangedTogether) ==
    IF Len(recentlyChangedTogether) > 0 THEN MaxCount(recentlyChangedTogether) ELSE 0

\* The high test with > in place of >=.
TechDebtLikelyhoodStrict(mostChanges, recentContributors, cfg) ==
    IF mostChanges > cfg.highCoChangesThreshold
       \/ Len(recentContributors) > cfg.highContributorsThreshold
    THEN "high"
    ELSE IF mostChanges >= cfg.mediumCoChangesThreshold
            \/ Len(recentContributors) >= cfg.mediumContributorsThreshold
    THEN "medium"
    ELSE "low"

\* techDebtLikelyhood: 'low', then 'medium' if the medium test holds, then
\* 'high' if the high test holds.
TechDebtLikelyhood(mostChanges, recentContributors, cfg) ==
    LET afterMedium ==
            IF mostChanges >= cfg.mediumCoChangesThreshold
               \/ Len(recentContributors) >= cfg.mediumContributorsThreshold
            THEN "medium" ELSE "low"
    IN  IF mostChanges >= cfg.highCoChangesThreshold
           \/ Len(recentContributors) >= cfg.highContributorsThreshold
        THEN "high" ELSE afterMedium

\* The tier computed from the all-time contributors.
TierOfAllContributors(acc, cfg) ==
    TechDebtLikelyhood(MostChanges(acc.recentlyChangedTogether), acc.contributors, cfg)

\* The tier of a file with the given accumulated statistics.
TierOf(acc, cfg) ==
    TechDebtLikelyhood(MostChanges(acc.recentlyChangedTogether),
                       acc.recentContributors, cfg)

\* The PieceOfCode pushed for one file with its line count.
PieceOfCode(file, gitHistory, cfg) ==
    LET acc == Accumulate([gitHistory |-> <<>>, contributors |-> <<>>,
                           recentContributors |-> <<>>,
                           recentlyChangedTogether |-> <<>>],
                          gitHistory, file.path, cfg.recentCutoff)
    IN  [filePath |-> file.path,
         techDebtLikelyhood |-> TierOf(acc, cfg),
         linesOfCode |-> file.lines,
         gitHistory |-> acc.gitHistory,
         contributors |-> acc.contributors,
         recentContributors |-> acc.recentContributors,
         recentlyChangedTogether |-> acc.recentlyChangedTogether]

-----------------------------------------------------------------------------
(* getRepoStatsInD3CompatibleFormat: nesting and the whole function        *)

\* currentLevel.find((item) => 'directoryPath' in item && item.directoryPath === part):
\* the index of the first such item, 0 if there is none.
FindDirectory(currentLevel, part) ==
    LET hits == {i \in 1..Len(currentLevel) :
                     /\ "directoryPath" \in DOMAIN currentLevel[i]
                     /\ currentLevel[i].directoryPath = part}
    IN  IF hits = {} THEN 0 ELSE CHOOSE i \in hits : \A j \in hits : i <= j

\* The directoryPath given to a new directory node: the bare segment instead
\* of the path accumulated so far.
NewDirectoryPathBare(fileParts, index) == fileParts[index]

\* The directoryPath given to a new directory node.
NewDirectoryPath(fileParts, index) == Join(SubSeq(fileParts, 1, index), <<"/">>)

RECURSIVE InsertParts(_, _, _, _)
\* fileParts.forEach from position index on, starting at currentLevel: the
\* level as it is after the file has been inserted.
InsertParts(currentLevel, fileParts, index, file) ==
    LET part == fileParts[index]
        isFile == index = Len(fileParts)
        found == FindDirectory(currentLevel, part)
    IN  IF found = 0
        THEN IF isFile
             THEN Append(currentLevel, file)
             ELSE Append(currentLevel,
                         [directoryPath |-> NewDirectoryPath(fileParts, index),
                          children |-> InsertParts(<<>>, fileParts, index + 1, file)])
        ELSE IF isFile
             THEN currentLevel
             ELSE [currentLevel EXCEPT ![found] =
                       [directoryPath |-> currentLevel[found].directoryPath,
                        children |-> InsertParts(currentLevel[found].children,
                                                 fileParts, index + 1, file)]]

RECURSIVE Nest(_, _)
\* The forEach over filesWithLineCountAndGitHistory that fills
\* nestedCodeStructure.
Nest(nestedCodeStructure, pieces) ==
    IF pieces = <<>> THEN nestedCodeStructure
    ELSE Nest(InsertParts(nestedCodeStructure,
                          Split(Head(pieces).filePath, "/"), 1, Head(pieces)),
              Tail(pieces))

\* getRepoStatsInD3CompatibleFormat(config): the outcome, the structure
\* returned and the number of git log subprocesses started.
GetRepoStats(cfg, repo, index, disk, log) ==
    LET tracked == GetGitTrackedFiles(repo, index, cfg.filesToIgnore)
        files == tracked.files
        filesWithLineCount ==
            [i \in 1..Len(files) |-> [path |-> files[i], lines |-> disk[files[i]]]]
        history == GetGitHistory(repo, files, log)
        pieces == [i \in 1..Len(files) |->
                       PieceOfCode(filesWithLineCount[i], history.commits, cfg)]
    IN  IF tracked.outcome = "threw"
        THEN [outcome |-> "threw", structure |-> <<>>, spawned |-> 0]
        ELSE IF \E i \in 1..Len(files) : files[i] \notin DOMAIN disk
        THEN [outcome |-> "threw", structure |-> <<>>, spawned |-> 0]
        ELSE IF history.outcome = "threw"
        THEN [outcome |-> "threw", structure |-> <<>>, spawned |-> history.spawned]
        ELSE [outcome |-> "returned",
              structure |-> Nest(<<>>, pieces),
              spawned |-> history.spawned]

-----------------------------------------------------------------------------
(* getGitRepoUrl and the HTTP handler of server.ts                          *)

\* getGitRepoUrl(repoPath): the outcome and the value returned. remote is the
\* URL of the remote origin; `git remote get-url origin` prints it on a line
\* of its own and fails when there is none.
GetGitRepoUrl(repo, remote) ==
    IF repo # "git" \/ remote = NoRemote
    THEN [outcome |-> "threw", url |-> <<>>]
    ELSE LET stdout == remote \o <<"\n">>
         IN  [outcome |-> "returned", url |-> Split(stdout, ".git")[1]]

\* The position of a request in its handler: which await it is suspended at.
AwaitingTrackedFiles == "await getGitTrackedFiles"
AwaitingLineCounts == "await Promise.all(countLinesInFile)"
Responded == "res.end"

\* The handler of GET /api/get-repo-stats up to its first await: `git
\* ls-files` has been started. closed tells whether the caller has closed the
\* connection of the request.
NewRequest ==
    [pc |-> AwaitingTrackedFiles, files |-> <<>>, lsFilesCalls |-> 1,
     gitLogCalls |-> 0, err |-> "none", response |-> NoCall, closed |-> FALSE]

\* The catch block of the handler with the status code left at 200.
RespondErrorWithOk(err) ==
    [statusCode |-> 200,
     json |-> [error |-> "Failed to get git-tracked files:", err |-> err]]

\* The catch block of the handler: what res.end sends after a throw.
RespondError(err) ==
    [statusCode |-> 500,
     json |-> [error |-> "Failed to get git-tracked files:", err |-> err]]

\* The try block of the handler: what res.end sends for the structure.
RespondOk(structure) == [statusCode |-> 200, json |-> [array |-> structure]]

\* AfterTrackedFiles with the throw of getGitTrackedFiles swallowed: the
\* handler goes on to the line counts with an empty file list.
AfterTrackedFilesDespiteError(req, cfg, repo, index) ==
    LET tracked == GetGitTrackedFiles(repo, index, cfg.filesToIgnore)
    IN  IF tracked.outcome = "threw"
        THEN [req EXCEPT !.pc = AwaitingLineCounts,
                         !.err = "Error in getGitTrackedFiles"]
        ELSE [req EXCEPT !.pc = AwaitingLineCounts, !.files = tracked.files]

\* The request after `git ls-files` has ended: getGitTrackedFiles throws, or
\* the line counts of the files are started.
AfterTrackedFiles(req, cfg, repo, index) ==
    LET tracked == GetGitTrackedFiles(repo, index, cfg.filesToIgnore)
    IN  IF tracked.outcome = "threw"
        THEN [req EXCEPT !.pc = Responded,
                         !.err = "Error in getGitTrackedFiles",
                         !.response = RespondError("Error in getGitTrackedFiles")]
        ELSE [req EXCEPT !.pc = AwaitingLineCounts, !.files = tracked.files]

\* The files of a request taken from the newest request instead.
FilesOfNewest(reqs, i) == reqs[Len(reqs)].files

\* The value of the local variable `files` of a request.
FilesOf(reqs, i) == reqs[i].files

\* The request after the line counts have ended: one of them failed, or
\* getGitHistory runs, the statistics are aggregated and nested and the
\* response is sent, all before the handler yields again.
AfterLineCounts(req, files, cfg, repo, disk, log) ==
    LET filesWithLineCount ==
            [i \in 1..Len(files) |-> [path |-> files[i], lines |-> disk[files[i]]]]
        history == GetGitHistory(repo, files, log)
        pieces == [i \in 1..Len(files) |->
                       PieceOfCode(filesWithLineCount[i], history.commits, cfg)]
    IN  IF \E i \in 1..Len(files) : files[i] \notin DOMAIN disk
        THEN [req EXCEPT !.pc = Responded,
                         !.err = "ENOENT",
                         !.response = RespondError("ENOENT")]
        ELSE IF history.outcome = "threw"
        THEN [req EXCEPT !.pc = Responded,
                         !.gitLogCalls = @ + history.spawned,
                         !.err = "Error in getGitHistory",
                         !.response = RespondError("Error in getGitHistory")]
        ELSE [req EXCEPT !.pc = Responded,
                         !.gitLogCalls = @ + history.spawned,
                         !.response = RespondOk(Nest(<<>>, pieces))]

-----------------------------------------------------------------------------
(* The later version of readGitFiles.ts: getGitTrackedFiles normalises the *)
(* paths it keeps, getGitHistory runs `git log --since <cutoff> -- <files>` *)
(* with the cutoff of the global visualizerConfig.                         *)

\* path.normalize (POSIX) of a relative path without "..": empty and "."
\* segments are dropped.
PathNormalize(p) ==
    Join(SelectSeq(Split(p, "/"), LAMBDA seg : seg # <<>> /\ seg # <<".">>),
         <<"/">>)

\* String.prototype.replace with a string pattern: the first occurrence only.
ReplaceFirst(s, pattern, replacement) ==
    IF \A i \in 1..Len(s) : s[i] # pattern THEN s
    ELSE LET i == CHOOSE k \in 1..Len(s) :
                      s[k] = pattern /\ \A j \in 1..(k - 1) : s[j] # pattern
         IN  [s EXCEPT ![i] = replacement]

\* replace(/^\\?"|"\\?$/g, ''): a quote at the start, with a backslash before
\* it or not, and a quote at the end, with a backslash after it or not.
StripQuotes(s) ==
    LET start == IF Len(s) >= 2 /\ s[1] = "\\" /\ s[2] = "\"" THEN 2
                 ELSE IF Len(s) >= 1 /\ s[1] = "\"" THEN 1
                 ELSE 0
        t == SubSeq(s, start + 1, Len(s))
        end == IF Len(t) >= 2 /\ t[Len(t)] = "\\" /\ t[Len(t) - 1] = "\"" THEN 2
               ELSE IF Len(t) >= 1 /\ t[Len(t)] = "\"" THEN 1
               ELSE 0
    IN  SubSeq(t, 1, Len(t) - end)

\* The map callback of getGitTrackedFiles.
NormalizeFile(file) ==
    StripQuotes(ReplaceFirst(PathNormalize(file), OctalEscape[EnDash], EnDash))

\* getGitTrackedFiles of the later version.
GetGitTrackedFilesNormalized(repo, index, filters) ==
    IF repo # "git"
    THEN [outcome |-> "threw", files |-> <<>>]
    ELSE LET files == SelectSeq(Split(LsFilesOutput(index), "\n"),
                                LAMBDA f : f # <<>>)
             kept == SelectSeq(files, LAMBDA filePath :
                         ~(\E k \in 1..Len(filters) :
                               Includes(filePath, filters[k])))
         IN  IF Len(filters) = 0
             THEN [outcome |-> "returned", files |-> files]
             ELSE [outcome |-> "returned",
                   files |-> [i \in 1..Len(kept) |-> NormalizeFile(kept[i])]]

\* The --since argument, new Date(cutoff).toISOString() without its T and Z:
\* the date and time of the cutoff in UTC, here as the whole seconds and the
\* milliseconds since the epoch.
SinceArgument(recentCutoff) ==
    [seconds |-> recentCutoff \div Second, millis |-> recentCutoff % Second]

\* The commits `git log --since <since> -- <files>` walks: the commits made
\* at or after the second named (git reads the argument in local time, UTC
\* here; the commits are made with the committer date equal to the author
\* date) that change one of the files, each with the status lines of these
\* files only.
GitLogSince(log, since, files) ==
    LET limited == [i \in 1..Len(log) |->
                        [log[i] EXCEPT !.changes =
                             SelectSeq(log[i].changes, LAMBDA ch :
                                 \E p \in Range(ch.paths) : p \in Range(files))]]
    IN  SelectSeq(limited, LAMBDA c :
            /\ c.changes # <<>>
            /\ DateGetTime(<<c.date>>) \div Second >= since.seconds)

RECURSIVE ChangedFiles(_)
\* The loop over the status lines of one entry.
ChangedFiles(fileLines) ==
    IF fileLines = <<>> THEN <<>>
    ELSE LET parts == Split(Head(fileLines), "\t")
             status == At(parts, 1)
             filePath == At(parts, 2)
             rest == ChangedFiles(Tail(fileLines))
         IN  IF Falsy(filePath) \/ status = <<"D">> THEN rest
             ELSE <<filePath>> \o rest

RECURSIVE ParseEntriesSince(_)
\* The loop over the entries: the commits pushed, in log order.
ParseEntriesSince(entries) ==
    IF entries = <<>> THEN <<>>
    ELSE LET lines == Split(Trim(Head(entries)), "\n")
             headerLine == Head(lines)
             fileLines == Tail(lines)
             fields == Split(headerLine, "|")
             changedFiles == ChangedFiles(fileLines)
             rest == ParseEntriesSince(Tail(entries))
         IN  IF changedFiles = <<>> THEN rest
             ELSE <<[commitHash |-> At(fields, 1),
                     authorName |-> At(fields, 2),
                     date |-> DateGetTime(At(fields, 3)),
                     changedFiles |-> changedFiles,
                     comment |-> At(fields, 4)]>> \o rest

\* getGitHistory of the later version: the outcome and the value returned.
\* globalConfig is the visualizerConfig object of the process. git log exits
\* with an error in a directory that is no repository and in a repository
\* without any commit, and with 0 when no commit is selected.
GetGitHistorySince(repo, files, log, globalConfig) ==
    IF repo = "missing"
    THEN [outcome |-> "threw", commits |-> <<>>, spawned |-> 0]
    ELSE IF Len(files) = 0
    THEN [outcome |-> "returned", commits |-> <<>>, spawned |-> 0]
    ELSE IF repo # "git" \/ log = <<>>
    THEN [outcome |-> "threw", commits |-> <<>>, spawned |-> 1]
    ELSE LET rawOutput ==
                 GitLogOutput(GitLogSince(log,
                                          SinceArgument(globalConfig.recentCutoff),
                                          files))
             entries == SelectSeq(Split(rawOutput, Marker),
                                  LAMBDA e : Trim(e) # <<>>)
         IN  [outcome |-> "returned",
              commits |-> Reverse(ParseEntriesSince(entries)),
              spawned |-> 1]

\* CIRCLE_COLOR
CIRCLE_COLOR == [green |-> "#b3ffb3", orange |-> "#ffbf80", red |-> "#e66565"]

RECURSIVE AccumulateSince(_, _, _)
\* The forEach over gitHistory for one file in the later version: every
\* commit of the list counts as recent.
AccumulateSince(acc, gitHistory, path) ==
    IF gitHistory = <<>> THEN acc
    ELSE LET commit == Head(gitHistory)
             next ==
                 IF path \notin Range(commit.changedFiles) THEN acc
                 ELSE [gitHistory |-> Append(acc.gitHistory, commit),
                       contributors |-> PushUnique(acc.contributors, commit.authorName),
                       recentContributors |->
                           PushUnique(acc.recentContributors, commit.authorName),
                       recentlyChangedTogether |->
                           CoChanges(acc.recentlyChangedTogether,
                                     commit.changedFiles, path)]
         IN  AccumulateSince(next, Tail(gitHistory), path)

\* circleColor: green, then orange if the medium test holds, then red if the
\* high test holds.
CircleColorOf(mostChanges, recentContributors, cfg) ==
    LET afterMedium ==
            IF mostChanges >= cfg.mediumCouplingThreshold
               \/ Len(recentContributors) >= cfg.mediumContributorsThreshold
            THEN CIRCLE_COLOR.orange ELSE CIRCLE_COLOR.green
    IN  IF mostChanges >= cfg.highCouplingThreshold
           \/ Len(recentContributors) >= cfg.highContributorsThreshold
        THEN CIRCLE_COLOR.red ELSE afterMedium

\* The PieceOfCode the later version pushes for one file.
PieceOfCodeSince(file, gitHistory, cfg) ==
    LET acc == AccumulateSince([gitHistory |-> <<>>, contributors |-> <<>>,
                                recentContributors |-> <<>>,
                                recentlyChangedTogether |-> <<>>],
                               gitHistory, file.path)
    IN  [filePath |-> file.path,
         circleColor |-> CircleColorOf(MostChanges(acc.recentlyChangedTogether),
                                       acc.recentContributors, cfg),
         linesOfCode |-> file.lines,
         gitHistory |-> acc.gitHistory,
         contributors |-> acc.contributors,
         recentContributors |-> acc.recentContributors,
         recentlyChangedTogether |-> acc.recentlyChangedTogether]

\* getRepoStatsInD3CompatibleFormat(config) of the later version, in a process
\* whose visualizerConfig object is globalConfig.
GetRepoStatsSince(cfg, globalConfig, repo, index, disk, log) ==
    LET tracked == GetGitTrackedFilesNormalized(repo, index, cfg.filesToIgnore)
        files == tracked.files
        filesWithLineCount ==
            [i \in 1..Len(files) |-> [path |-> files[i], lines |-> disk[files[i]]]]
        history == GetGitHistorySince(repo, files, log, globalConfig)
        pieces == [i \in 1..Len(files) |->
                       PieceOfCodeSince(filesWithLineCount[i], history.commits, cfg)]
    IN  IF tracked.outcome = "threw"
        THEN [outcome |-> "threw", structure |-> <<>>, spawned |-> 0]
        ELSE IF \E i \in 1..Len(files) : files[i] \notin DOMAIN disk
        THEN [outcome |-> "threw", structure |-> <<>>, spawned |-> 0]
        ELSE IF history.outcome = "threw"
        THEN [outcome |-> "threw", structure |-> <<>>, spawned |-> history.spawned]
        ELSE [outcome |-> "returned",
              structure |-> Nest(<<>>, pieces),
              spawned |-> history.spawned]

-----------------------------------------------------------------------------
(* Inputs: the paths, commits and arguments the runs are drawn from.       *)

Fx == <<"x">>
Fax == <<"a", "/", "x">>
Fbx == <<"b", "/", "x">>
Fabx == <<"a", "/", "b", "/", "x">>
Faby == <<"a", "/", "b", "/", "y">>
Fxa == <<"x", "a">>

\* The paths an index is made of, in the order git keeps an index in.
IndexPaths == <<Fabx, Faby, Fax, Fbx, Fx, Fxa>>

\* The position of a path in IndexPaths.
IndexPos(p) == CHOOSE k \in 1..Len(IndexPaths) : IndexPaths[k] = p

FilterStrings == {<<"a">>, <<"b", "/">>, <<"x">>, <<"y">>}

Hashes == <<"h1", "h2", "h3", "h4">>

NoConfig == [repoPath |-> "."]

\* The server process has not been started: the module visualizerConfig.ts
\* has not been evaluated and no request has been received.
ServerNotStarted ==
    /\ visualizerConfig = NoConfig
    /\ remoteUrl = NoRemote
    /\ repoUrlResult = NoCall
    /\ requests = <<>>
    /\ process = NewProcess
    /\ rootTree = NoCall

\* Every file of the index is on disk, with as many lines as its path has
\* characters.
AllFilesOnDisk == [p \in Range(IndexPaths) |-> Len(p)]

\* All sequences over S of length at most n.
SeqsUpTo(S, n) == UNION {[1..k -> S] : k \in 0..n}

RECURSIVE LogLines(_)
\* Number of status lines in a log.
LogLines(log) ==
    IF log = <<>> THEN 0 ELSE Len(Head(log).changes) + LogLines(Tail(log))

\* The status lines a commit of the history runs is made of: an add and a
\* delete of x, a modification of a/x, and a rename of b/x to x.
HistoryChanges ==
    {[status |-> "A", paths |-> <<Fx>>],
     [status |-> "D", paths |-> <<Fx>>],
     [status |-> "M", paths |-> <<Fax>>],
     [status |-> "R100", paths |-> <<Fbx, Fx>>]}

IncludedChoices == {<<>>, <<Fx>>, <<Fx, Fax>>}

-----------------------------------------------------------------------------
(* Runs of getGitHistory on a repository that git commits are made to.     *)

InitHistory ==
    /\ repoState \in {"missing", "plain", "git"}
    /\ gitIndex = <<>>
    /\ excludeFilters = <<>>
    /\ trackedResult = NoCall
    /\ gitLog = <<>>
    /\ includedFiles \in IncludedChoices
    /\ historyResult = NoCall
    /\ execSyncCalls = 0
    /\ workTree = AllFilesOnDisk
    /\ config = NoConfig
    /\ statsResult = NoCall
    /\ ServerNotStarted

\* `git commit`: a new commit becomes the first entry of the log. Author
\* dates are whatever the author's clock (or a rebase) says.
GitCommit ==
    /\ repoState = "git"
    /\ historyResult = NoCall
    /\ Len(gitLog) < MaxCommits
    /\ \E date \in Range(IsoDates),
          changes \in SeqsUpTo(HistoryChanges, MaxLogLines - LogLines(gitLog)) :
          gitLog' = <<[hash |-> Hashes[Len(gitLog) + 1],
                       author |-> <<"alice">>,
                       date |-> date,
                       subject |-> <<"s">>,
                       changes |-> changes]>> \o gitLog
    /\ UNCHANGED serverVars
    /\ UNCHANGED <<repoState, gitIndex, excludeFilters, trackedResult,
                   includedFiles, historyResult, execSyncCalls, workTree, config, statsResult>>

\* A call getGitHistory(repoPath, includedFiles).
CallGetGitHistory ==
    /\ historyResult = NoCall
    /\ LET r == GetGitHistory(repoState, includedFiles, gitLog)
       IN  /\ historyResult' = [outcome |-> r.outcome, commits |-> r.commits]
           /\ execSyncCalls' = execSyncCalls + r.spawned
    /\ UNCHANGED serverVars
    /\ UNCHANGED <<repoState, gitIndex, excludeFilters, trackedResult, gitLog,
                   includedFiles, workTree, config, statsResult>>

NextHistory == GitCommit \/ CallGetGitHistory

SpecHistory == InitHistory /\ [][NextHistory]_vars

-----------------------------------------------------------------------------
(* Properties of getGitHistory.                                            *)

\* The paths a commit adds or modifies according to its log entry: the paths
\* on its status lines whose status is not a delete.
ChangedPaths(c) ==
    UNION {Range(ch.paths) : ch \in {x \in Range(c.changes) : x.status # "D"}}

HistoryReturned == historyResult.outcome = "returned"

\* C1: a commit none of whose changed paths is in includedFiles is not in the
\* list getGitHistory returns, and every returned commit has at least one
\* changed file, all of them paths of includedFiles.
C1_NoCommitOutsideIncluded ==
    HistoryReturned =>
        /\ \A c \in Range(gitLog) :
               ChangedPaths(c) \cap Range(includedFiles) = {} =>
                   \A r \in Range(historyResult.commits) : r.commitHash # <<c.hash>>
        /\ \A r \in Range(historyResult.commits) :
               /\ r.changedFiles # <<>>
               /\ Range(r.changedFiles) \subseteq Range(includedFiles)

\* A call that returned a commit and left out another one, whose changed
\* paths are all outside includedFiles.
C1_Witness ==
    /\ HistoryReturned
    /\ historyResult.commits # <<>>
    /\ \E c \in Range(gitLog) :
           /\ ChangedPaths(c) # {}
           /\ ChangedPaths(c) \cap Range(includedFiles) = {}

\* C2: the list getGitHistory returns is non-decreasing in timestamp.
C2_NonDecreasingDates ==
    HistoryReturned =>
        \A i, j \in 1..Len(historyResult.commits) :
            i < j => historyResult.commits[i].date <= historyResult.commits[j].date

\* C3: a path is in the changedFiles of a returned commit exactly if it is in
\* includedFiles and a status line of that commit with a non-delete status
\* references it.
C3_ChangedFilesExact ==
    HistoryReturned =>
        \A r \in Range(historyResult.commits) :
            \A c \in Range(gitLog) :
                r.commitHash = <<c.hash>> =>
                    \A p \in {Fx, Fax, Fbx} :
                        p \in Range(r.changedFiles) <=>
                            /\ p \in Range(includedFiles)
                            /\ p \in ChangedPaths(c)

\* C4 as stated: with an empty includedFiles every call returns the empty
\* list and starts no git log subprocess, whatever the repoPath.
C4_EmptyAlwaysReturnsEmpty ==
    (historyResult # NoCall /\ includedFiles = <<>>) =>
        /\ historyResult.outcome = "returned"
        /\ historyResult.commits = <<>>
        /\ execSyncCalls = 0

\* C4 amended: with an empty includedFiles no call starts a git log
\* subprocess; the call returns the empty list when repoPath exists and
\* throws when it does not.
C4_EmptyNeverSpawns ==
    (historyResult # NoCall /\ includedFiles = <<>>) =>
        /\ execSyncCalls = 0
        /\ repoState # "missing" =>
               historyResult.outcome = "returned" /\ historyResult.commits = <<>>
        /\ repoState = "missing" => historyResult.outcome = "threw"

\* A call with an empty includedFiles on a repository whose log has a commit
\* that changes files.
C4_Witness ==
    /\ HistoryReturned
    /\ includedFiles = <<>>
    /\ \E c \in Range(gitLog) : ChangedPaths(c) # {}

-----------------------------------------------------------------------------
(* Runs of getGitTrackedFiles on a repository that files are added to.     *)

InitTracked ==
    /\ repoState \in {"plain", "git"}
    /\ gitIndex = <<>>
    /\ excludeFilters \in SeqsUpTo(FilterStrings, MaxFilters)
    /\ trackedResult = NoCall
    /\ gitLog = <<>>
    /\ includedFiles = <<>>
    /\ historyResult = NoCall
    /\ execSyncCalls = 0
    /\ workTree = AllFilesOnDisk
    /\ config = NoConfig
    /\ statsResult = NoCall
    /\ ServerNotStarted

\* The stages an unmerged path has an index entry for.
MergeStages == {"base", "ours", "theirs"}

\* A path of the index with more than one entry: `git ls-files` prints one
\* line per entry.
Unmerged == \E i, j \in 1..Len(gitIndex) : i # j /\ gitIndex[i] = gitIndex[j]

\* A merge stops on a conflict in the last file of the index: the path gets
\* one more entry, up to one per stage.
GitMergeConflict ==
    /\ repoState = "git"
    /\ trackedResult = NoCall
    /\ statsResult = NoCall
    /\ gitIndex # <<>>
    /\ Len(gitIndex) < MaxFiles
    /\ Cardinality({i \in 1..Len(gitIndex) : gitIndex[i] = gitIndex[Len(gitIndex)]})
           < Cardinality(MergeStages)
    /\ gitIndex' = Append(gitIndex, gitIndex[Len(gitIndex)])
    /\ UNCHANGED serverVars
    /\ UNCHANGED <<repoState, excludeFilters, trackedResult, gitLog,
                   includedFiles, historyResult, execSyncCalls, workTree, config, statsResult>>

\* `git add` of a new file: the index gets one more entry. (The entries are
\* added in index order, which gives every index.)
GitAdd ==
    /\ repoState = "git"
    /\ trackedResult = NoCall
    /\ statsResult = NoCall
    /\ Len(gitIndex) < MaxFiles
    /\ \E k \in 1..Len(IndexPaths) :
          /\ gitIndex # <<>> => k > IndexPos(gitIndex[Len(gitIndex)])
          /\ gitIndex' = Append(gitIndex, IndexPaths[k])
    /\ UNCHANGED serverVars
    /\ UNCHANGED <<repoState, excludeFilters, trackedResult, gitLog,
                   includedFiles, historyResult, execSyncCalls, workTree, config, statsResult>>

\* A call getGitTrackedFiles(repoPath, excludeFilters).
CallGetGitTrackedFiles ==
    /\ trackedResult = NoCall
    /\ trackedResult' = GetGitTrackedFiles(repoState, gitIndex, excludeFilters)
    /\ UNCHANGED serverVars
    /\ UNCHANGED <<repoState, gitIndex, excludeFilters, gitLog, includedFiles,
                   historyResult, execSyncCalls, workTree, config, statsResult>>

NextTracked == GitAdd \/ GitMergeConflict \/ CallGetGitTrackedFiles

SpecTracked == InitTracked /\ [][NextTracked]_vars

\* f occurs in p as a run of consecutive characters.
IsSubstring(f, p) ==
    \E i \in 1..(Len(p) + 1), j \in 0..Len(p) : SubSeq(p, i, j) = f

\* C5: getGitTrackedFiles returns exactly the listed paths that contain none
\* of the excludeFilters as a substring, in listing order (all of them when
\* there is no filter).
C5_TrackedFilesFiltered ==
    trackedResult.outcome = "returned" =>
        trackedResult.files =
            SelectSeq(gitIndex, LAMBDA p :
                \A f \in Range(excludeFilters) : ~IsSubstring(f, p))

\* A call with two filters that kept a file, dropped a file that contains
\* only one of the filters, and dropped it for a substring that is no whole
\* path segment.
C5_Witness ==
    /\ trackedResult.outcome = "returned"
    /\ trackedResult.files # <<>>
    /\ Len(excludeFilters) = 2
    /\ \E p \in Range(gitIndex) :
           /\ p \notin Range(trackedResult.files)
           /\ p = Fxa
           /\ \E f \in Range(excludeFilters) : ~IsSubstring(f, p)

-----------------------------------------------------------------------------
(* Runs of getRepoStatsInD3CompatibleFormat.                                *)

\* The thresholds of the shipped configuration.
DefaultMediumCoChanges == 3
DefaultHighCoChanges == 6
DefaultMediumContributors == 3
DefaultHighContributors == 5

\* The cutoff of the runs: the first of the author dates, so that a commit
\* with that date is not recent and a commit with the second one is.
RecentCutoff == DateGetTime(<<IsoDates[1]>>)

Config(ignore, mediumCo, highCo, mediumContributors, highContributors) ==
    [repoPath |-> ".",
     filesToIgnore |-> ignore,
     recentCutoff |-> RecentCutoff,
     mediumCoChangesThreshold |-> mediumCo,
     highCoChangesThreshold |-> highCo,
     mediumContributorsThreshold |-> mediumContributors,
     highContributorsThreshold |-> highContributors]

DefaultConfig ==
    Config(<<>>, DefaultMediumCoChanges, DefaultHighCoChanges,
           DefaultMediumContributors, DefaultHighContributors)

\* A call getRepoStatsInD3CompatibleFormat(config).
CallGetRepoStats ==
    /\ statsResult = NoCall
    /\ LET r == GetRepoStats(config, repoState, gitIndex, workTree, gitLog)
       IN  /\ statsResult' = [outcome |-> r.outcome, structure |-> r.structure]
           /\ execSyncCalls' = execSyncCalls + r.spawned
    /\ UNCHANGED serverVars
    /\ UNCHANGED <<repoState, gitIndex, excludeFilters, trackedResult, gitLog,
                   includedFiles, historyResult, workTree, config>>

\* --- the client: the tree CircleDiagram rebuilds from a response -----------

\* JSON.parse(JSON.stringify(value)) of a number: NaN is written as null.
JsonNumber(n) == IF n = NaN THEN <<"null">> ELSE n

RECURSIVE JsonRoundTrip(_)
\* The nested structure as the client receives it: written by JSON.stringify
\* in the handler and read by res.json() in the client.
JsonRoundTrip(level) ==
    [i \in 1..Len(level) |->
         IF "children" \in DOMAIN level[i]
         THEN [level[i] EXCEPT !.children = JsonRoundTrip(@)]
         ELSE [level[i] EXCEPT !.gitHistory =
                   [k \in 1..Len(@) |-> [@[k] EXCEPT !.date = JsonNumber(@)]]]]

\* The root node of the tree.
RootNode == [name |-> <<>>, fullPath |-> <<>>, children |-> <<>>]

\* children.has(key) / children.get(key) of a node: the position of the
\* child with that key in the Map, 0 when it has none. Every child is set
\* under its name.
ChildIndex(node, key) ==
    LET hits == {i \in 1..Len(node.children) : node.children[i].name = key}
    IN  IF hits = {} THEN 0 ELSE CHOOSE i \in hits : TRUE

\* children.set(child.name, child): a Map keeps the position of a key it has.
SetChild(node, child) ==
    LET k == ChildIndex(node, child.name)
    IN  [node EXCEPT !.children =
             IF k = 0 THEN Append(@, child) ELSE [@ EXCEPT ![k] = child]]

\* `${curPath}/${seg}`, or seg at the root.
ChildPath(curPath, seg) ==
    IF curPath = <<>> THEN seg ELSE curPath \o <<"/">> \o seg

RECURSIVE EnsureDirAlwaysNew(_, _, _)
\* ensureDir without the children.has(seg) test: every segment gets a new node.
EnsureDirAlwaysNew(node, segments, curPath) ==
    IF segments = <<>> THEN node
    ELSE LET seg == Head(segments)
             path == ChildPath(curPath, seg)
             child == [name |-> seg, fullPath |-> path, children |-> <<>>]
         IN  [node EXCEPT !.children =
                  Append(@, EnsureDirAlwaysNew(child, Tail(segments), path))]

RECURSIVE EnsureDir(_, _, _)
\* The loop of ensureDir over the segments from the node cur on: the node as
\* it is after the nodes of the segments have been created where missing.
EnsureDir(node, segments, curPath) ==
    IF segments = <<>> THEN node
    ELSE LET seg == Head(segments)
             path == ChildPath(curPath, seg)
             k == ChildIndex(node, seg)
             child == IF k = 0
                      THEN [name |-> seg, fullPath |-> path, children |-> <<>>]
                      ELSE node.children[k]
         IN  SetChild(node, EnsureDir(child, Tail(segments), path))

RECURSIVE SetBelow(_, _, _)
\* parent.children.set(...) for the parent that ensureDir has returned for the
\* segments: the node with the child set in the node the segments lead to.
SetBelow(node, segments, fileNode) ==
    IF segments = <<>> THEN SetChild(node, fileNode)
    ELSE LET k == ChildIndex(node, Head(segments))
         IN  [node EXCEPT !.children[k] = SetBelow(@, Tail(segments), fileNode)]

\* dirPath.split('/').filter(Boolean)
Segments(dirPath) == SelectSeq(Split(dirPath, "/"), LAMBDA seg : seg # <<>>)

\* insertFile(piece) on the tree below root.
InsertFile(root, piece) ==
    LET parts == Split(piece.filePath, "/")
        dirPath == Join(SubSeq(parts, 1, Len(parts) - 1), <<"/">>)
        fileName == IF parts[Len(parts)] = <<>> THEN piece.filePath
                    ELSE parts[Len(parts)]
        fileNode == [name |-> fileName, fullPath |-> piece.filePath,
                     children |-> <<>>, piece |-> piece]
    IN  IF dirPath = <<>> THEN SetChild(root, fileNode)
        ELSE SetBelow(EnsureDir(root, Segments(dirPath), <<>>),
                      Segments(dirPath), fileNode)

RECURSIVE Walk(_, _)
\* walk(items) on the tree below root.
Walk(root, items) ==
    IF items = <<>> THEN root
    ELSE LET item == Head(items)
         IN  IF "directoryPath" \in DOMAIN item
             THEN Walk(Walk(EnsureDir(root, Segments(item.directoryPath), <<>>),
                            item.children),
                       Tail(items))
             ELSE IF "filePath" \in DOMAIN item
             THEN Walk(InsertFile(root, item), Tail(items))
             ELSE Walk(root, Tail(items))

\* The useMemo of rootTree for the nested structure of a response.
RootTree(nestedCodeStructure) == Walk(RootNode, nestedCodeStructure)

\* The client receives the structure of a response and CircleDiagram
\* rebuilds its tree from it.
ClientRebuild ==
    /\ statsResult.outcome = "returned"
    /\ rootTree = NoCall
    /\ rootTree' = [outcome |-> "built",
                    tree |-> RootTree(JsonRoundTrip(statsResult.structure))]
    /\ UNCHANGED <<visualizerConfig, remoteUrl, repoUrlResult, requests, process>>
    /\ UNCHANGED <<repoState, gitIndex, excludeFilters, trackedResult, gitLog,
                   includedFiles, historyResult, execSyncCalls, workTree, config,
                   statsResult>>

\* --- the tree: files are added to the index and committed -----------------

InitTree ==
    /\ repoState = "git"
    /\ gitIndex = <<>>
    /\ excludeFilters = <<>>
    /\ trackedResult = NoCall
    /\ gitLog = <<>>
    /\ includedFiles = <<>>
    /\ historyResult = NoCall
    /\ execSyncCalls = 0
    /\ workTree = AllFilesOnDisk
    /\ config \in {Config(ignore, DefaultMediumCoChanges, DefaultHighCoChanges,
                          DefaultMediumContributors, DefaultHighContributors) :
                       ignore \in {<<>>, <<<<"y">>>>}}
    /\ statsResult = NoCall
    /\ ServerNotStarted

\* The files of the index that no commit has added yet, in index order.
Staged ==
    SelectSeq(gitIndex, LAMBDA p :
        \A c \in Range(gitLog) : \A ch \in Range(c.changes) : p \notin Range(ch.paths))

\* `git commit` of the files staged by `git add`.
GitCommitStaged ==
    /\ statsResult = NoCall
    /\ ~Unmerged
    /\ Staged # <<>>
    /\ gitLog' = <<[hash |-> Hashes[Len(gitLog) + 1],
                    author |-> <<"alice">>,
                    date |-> IsoDates[2],
                    subject |-> <<"s">>,
                    changes |-> [i \in 1..Len(Staged) |->
                                     [status |-> "A", paths |-> <<Staged[i]>>]]]>>
                  \o gitLog
    /\ UNCHANGED serverVars
    /\ UNCHANGED <<repoState, gitIndex, excludeFilters, trackedResult,
                   includedFiles, historyResult, execSyncCalls, workTree, config,
                   statsResult>>

\* `rm` of a tracked file: it stays in the index and is gone from the work
\* tree, so that createReadStream fails on it.
RemoveFile ==
    /\ statsResult = NoCall
    /\ \E p \in Range(gitIndex) \cap DOMAIN workTree :
          workTree' = [q \in DOMAIN workTree \ {p} |-> workTree[q]]
    /\ UNCHANGED serverVars
    /\ UNCHANGED <<repoState, gitIndex, excludeFilters, trackedResult, gitLog,
                   includedFiles, historyResult, execSyncCalls, config, statsResult>>

NextTree ==
    \/ GitAdd \/ GitMergeConflict \/ GitCommitStaged \/ RemoveFile
    \/ CallGetRepoStats \/ ClientRebuild

SpecTree == InitTree /\ [][NextTree]_vars

\* --- the statistics: three tracked files, commits by two authors ----------

StatsIndex == <<Fax, Fbx, Fx>>

\* Who commits and when: alice before the cutoff, alice and bob after it.
Commiters ==
    {[author |-> <<"alice">>, date |-> IsoDates[1]],
     [author |-> <<"alice">>, date |-> IsoDates[2]],
     [author |-> <<"bob">>, date |-> IsoDates[2]]}

\* What a commit of the statistics runs modifies: x alone, or all three
\* files.
StatsChanges ==
    {<<[status |-> "M", paths |-> <<Fx>>]>>,
     [i \in 1..Len(StatsIndex) |-> [status |-> "M", paths |-> <<StatsIndex[i]>>]]}

Thresholds == 0..MaxThreshold

InitStats ==
    /\ repoState = "git"
    /\ gitIndex = StatsIndex
    /\ excludeFilters = <<>>
    /\ trackedResult = NoCall
    /\ gitLog = <<>>
    /\ includedFiles = <<>>
    /\ historyResult = NoCall
    /\ execSyncCalls = 0
    /\ workTree = AllFilesOnDisk
    /\ config \in {DefaultConfig} \cup
                  {Config(<<>>, mc, hc, mk, hk) :
                       mc \in Thresholds, hc \in Thresholds,
                       mk \in Thresholds, hk \in Thresholds}
    /\ statsResult = NoCall
    /\ ServerNotStarted

\* `git commit` of a change to tracked files by one of the authors.
GitCommitChange ==
    /\ statsResult = NoCall
    /\ Len(gitLog) < MaxStatsCommits
    /\ \E who \in Commiters, changes \in StatsChanges :
          gitLog' = <<[hash |-> Hashes[Len(gitLog) + 1],
                       author |-> who.author,
                       date |-> who.date,
                       subject |-> <<"s">>,
                       changes |-> changes]>> \o gitLog
    /\ UNCHANGED serverVars
    /\ UNCHANGED <<repoState, gitIndex, excludeFilters, trackedResult,
                   includedFiles, historyResult, execSyncCalls, workTree, config,
                   statsResult>>

NextStats == GitCommitChange \/ CallGetRepoStats

SpecStats == InitStats /\ [][NextStats]_vars

\* --- paths outside ASCII in the index ---------------------------------------

\* The paths of these runs, in index order (git orders by bytes).
NonAsciiPaths ==
    <<Fax,
      <<"a", EnDash, "b">>,
      <<"a", EnDash, "b", EnDash, "y">>,
      <<"c", "a", "f", EAcute>>,
      Fx>>

InitEncoding ==
    /\ repoState = "git"
    /\ gitIndex = <<>>
    /\ excludeFilters \in {<<>>, <<<<"y">>>>, <<<<"x">>>>}
    /\ trackedResult = NoCall
    /\ gitLog = <<>>
    /\ includedFiles = <<>>
    /\ historyResult = NoCall
    /\ execSyncCalls = 0
    /\ workTree = AllFilesOnDisk
    /\ config = NoConfig
    /\ statsResult = NoCall
    /\ ServerNotStarted

\* `git add` of a new file whose name may hold characters outside ASCII.
GitAddNonAscii ==
    /\ trackedResult = NoCall
    /\ Len(gitIndex) < MaxFiles
    /\ \E k \in 1..Len(NonAsciiPaths) :
          /\ \A i \in 1..Len(gitIndex) :
                 \E j \in 1..(k - 1) : NonAsciiPaths[j] = gitIndex[i]
          /\ gitIndex' = Append(gitIndex, NonAsciiPaths[k])
    /\ UNCHANGED serverVars
    /\ UNCHANGED <<repoState, excludeFilters, trackedResult, gitLog,
                   includedFiles, historyResult, execSyncCalls, workTree, config, statsResult>>

\* A call getGitTrackedFiles(repoPath, excludeFilters) of the later version.
CallGetGitTrackedFilesNormalized ==
    /\ trackedResult = NoCall
    /\ trackedResult' = GetGitTrackedFilesNormalized(repoState, gitIndex, excludeFilters)
    /\ UNCHANGED serverVars
    /\ UNCHANGED <<repoState, gitIndex, excludeFilters, gitLog, includedFiles,
                   historyResult, execSyncCalls, workTree, config, statsResult>>

NextEncoding ==
    GitAddNonAscii \/ CallGetGitTrackedFiles \/ CallGetGitTrackedFilesNormalized

SpecEncoding == InitEncoding /\ [][NextEncoding]_vars

\* --- the later version: the statistics in a process with a global cutoff --

\* A VisualizerConfig with the shipped thresholds.
VisualizerConfigWith(recentCutoff) ==
    [repoPath |-> ".",
     filesToIgnore |-> <<>>,
     recentCutoff |-> recentCutoff,
     mediumCouplingThreshold |-> DefaultMediumCoChanges,
     highCouplingThreshold |-> DefaultHighCoChanges,
     mediumContributorsThreshold |-> DefaultMediumContributors,
     highContributorsThreshold |-> DefaultHighContributors]

\* The values `new Date().getTime() - 182 * 86400000` takes when the module
\* visualizerConfig.ts is evaluated: it depends on when the process starts.
GlobalCutoffs == {DateGetTime(<<IsoDates[n]>>) : n \in 1..Len(IsoDates)}

InitSince ==
    /\ repoState = "git"
    /\ gitIndex = StatsIndex
    /\ excludeFilters = <<>>
    /\ trackedResult = NoCall
    /\ gitLog = <<>>
    /\ includedFiles = <<>>
    /\ historyResult = NoCall
    /\ execSyncCalls = 0
    /\ workTree = AllFilesOnDisk
    /\ config = VisualizerConfigWith(RecentCutoff)
    /\ statsResult = NoCall
    /\ visualizerConfig \in {VisualizerConfigWith(c) : c \in GlobalCutoffs}
    /\ remoteUrl = NoRemote
    /\ repoUrlResult = NoCall
    /\ requests = <<>>
    /\ process = NewProcess
    /\ rootTree = NoCall

\* The process is stopped and started again: visualizerConfig.ts is evaluated
\* anew.
RestartProcess ==
    /\ \E c \in GlobalCutoffs \ {visualizerConfig.recentCutoff} :
          visualizerConfig' = VisualizerConfigWith(c)
    /\ UNCHANGED <<remoteUrl, repoUrlResult, requests, process, rootTree>>
    /\ UNCHANGED <<repoState, gitIndex, excludeFilters, trackedResult, gitLog,
                   includedFiles, historyResult, execSyncCalls, workTree, config,
                   statsResult>>

\* A call getRepoStatsInD3CompatibleFormat(config) of the later version.
CallGetRepoStatsSince ==
    /\ LET r == GetRepoStatsSince(config, visualizerConfig, repoState, gitIndex,
                                  workTree, gitLog)
       IN  /\ statsResult' = [outcome |-> r.outcome, structure |-> r.structure]
           /\ execSyncCalls' = execSyncCalls + r.spawned
    /\ execSyncCalls < MaxCalls
    /\ UNCHANGED serverVars
    /\ UNCHANGED <<repoState, gitIndex, excludeFilters, trackedResult, gitLog,
                   includedFiles, historyResult, workTree, config>>

NextSince == GitCommitChange \/ RestartProcess \/ CallGetRepoStatsSince

SpecSince == InitSince /\ [][NextSince]_vars

\* --- getGitRepoUrl on a repository that gets a remote ---------------------

\* What the URLs of the remote are made of: a host, a name, the suffix and
\* the rest of a name such as r.github.io.
UrlTokens == {"https://h/", "r", ".git", "hub.io"}

InitUrl ==
    /\ repoState \in {"plain", "git"}
    /\ gitIndex = <<>>
    /\ excludeFilters = <<>>
    /\ trackedResult = NoCall
    /\ gitLog = <<>>
    /\ includedFiles = <<>>
    /\ historyResult = NoCall
    /\ execSyncCalls = 0
    /\ workTree = AllFilesOnDisk
    /\ config = NoConfig
    /\ statsResult = NoCall
    /\ ServerNotStarted

\* `git remote add origin <url>`
GitRemoteAdd ==
    /\ repoState = "git"
    /\ remoteUrl = NoRemote
    /\ repoUrlResult = NoCall
    /\ \E u \in SeqsUpTo(UrlTokens, MaxUrlTokens) \ {<<>>} : remoteUrl' = u
    /\ UNCHANGED <<visualizerConfig, repoUrlResult, requests, process, rootTree>>
    /\ UNCHANGED <<repoState, gitIndex, excludeFilters, trackedResult, gitLog,
                   includedFiles, historyResult, execSyncCalls, workTree, config,
                   statsResult>>

\* A call getGitRepoUrl(repoPath).
CallGetGitRepoUrl ==
    /\ repoUrlResult = NoCall
    /\ repoUrlResult' = GetGitRepoUrl(repoState, remoteUrl)
    /\ UNCHANGED <<visualizerConfig, remoteUrl, requests, process, rootTree>>
    /\ UNCHANGED <<repoState, gitIndex, excludeFilters, trackedResult, gitLog,
                   includedFiles, historyResult, execSyncCalls, workTree, config,
                   statsResult>>

NextUrl == GitRemoteAdd \/ CallGetGitRepoUrl

SpecUrl == InitUrl /\ [][NextUrl]_vars

\* --- the server: concurrent GET /api/get-repo-stats requests ----------------

\* The files of these runs, in the order they are created and added in.
ServerPaths == <<Fax, Fx>>

InitServer ==
    /\ repoState \in {"plain", "git"}
    /\ gitIndex = <<>>
    /\ excludeFilters = <<>>
    /\ trackedResult = NoCall
    /\ gitLog = <<>>
    /\ includedFiles = <<>>
    /\ historyResult = NoCall
    /\ execSyncCalls = 0
    /\ workTree = AllFilesOnDisk
    /\ config = DefaultConfig
    /\ statsResult = NoCall
    /\ ServerNotStarted

\* `git add` of the next file.
GitAddNext ==
    /\ repoState = "git"
    /\ Len(gitIndex) < MaxFiles
    /\ Len(gitIndex) < Len(ServerPaths)
    /\ gitIndex' = Append(gitIndex, ServerPaths[Len(gitIndex) + 1])
    /\ UNCHANGED serverVars
    /\ UNCHANGED <<repoState, excludeFilters, trackedResult, gitLog,
                   includedFiles, historyResult, execSyncCalls, workTree, config, statsResult>>

\* A GET /api/get-repo-stats request arrives: the handler runs up to its
\* first await.
ReceiveRequest ==
    /\ Len(requests) < MaxRequests
    /\ requests' = Append(requests, NewRequest)
    /\ UNCHANGED <<visualizerConfig, remoteUrl, repoUrlResult, process, rootTree>>
    /\ UNCHANGED <<repoState, gitIndex, excludeFilters, trackedResult, gitLog,
                   includedFiles, historyResult, execSyncCalls, workTree, config,
                   statsResult>>

\* `git ls-files` of a request ends and its handler goes on to the next await.
TrackedFilesDone ==
    /\ \E i \in 1..Len(requests) :
          /\ requests[i].pc = AwaitingTrackedFiles
          /\ requests' = [requests EXCEPT
                 ![i] = AfterTrackedFiles(requests[i], config, repoState, gitIndex)]
    /\ UNCHANGED <<visualizerConfig, remoteUrl, repoUrlResult, process, rootTree>>
    /\ UNCHANGED <<repoState, gitIndex, excludeFilters, trackedResult, gitLog,
                   includedFiles, historyResult, execSyncCalls, workTree, config,
                   statsResult>>

\* The line counts of a request end and its handler runs to its end.
LineCountsDone ==
    /\ \E i \in 1..Len(requests) :
          /\ requests[i].pc = AwaitingLineCounts
          /\ LET after == AfterLineCounts(requests[i], FilesOf(requests, i), config,
                                          repoState, workTree, gitLog)
             IN  /\ requests' = [requests EXCEPT ![i] = after]
                 /\ execSyncCalls' = execSyncCalls + after.gitLogCalls
    /\ UNCHANGED <<visualizerConfig, remoteUrl, repoUrlResult, process, rootTree>>
    /\ UNCHANGED <<repoState, gitIndex, excludeFilters, trackedResult, gitLog,
                   includedFiles, historyResult, workTree, config, statsResult>>

\* The caller of a request that has not been answered closes the connection.
\* The handler listens to no event of the request, the response or the
\* socket and keeps no handle of the `git ls-files` child process, so nothing
\* but the state of the connection changes.
ConnectionClosed ==
    /\ \E i \in 1..Len(requests) :
          /\ requests[i].pc # Responded
          /\ ~requests[i].closed
          /\ requests' = [requests EXCEPT ![i].closed = TRUE]
    /\ UNCHANGED <<visualizerConfig, remoteUrl, repoUrlResult, process, rootTree>>
    /\ UNCHANGED <<repoState, gitIndex, excludeFilters, trackedResult, gitLog,
                   includedFiles, historyResult, execSyncCalls, workTree, config,
                   statsResult>>

NextServer ==
    \/ GitAddNext \/ GitCommitStaged \/ RemoveFile
    \/ ReceiveRequest \/ ConnectionClosed \/ TrackedFilesDone \/ LineCountsDone

SpecServer == InitServer /\ [][NextServer]_vars

\* --- the process: the routes of the handler, signals and shutdown ----------

\* req.url of the requests of these runs: none, each of the three routes, the
\* editor route with a path parameter, with an empty one and without one,
\* another path, and "//", which has no host.
ApiStats == "/api/get-repo-stats"
ApiUrl == "/api/get-repo-url"
ApiEditor == "/api/open-in-code-editor"

RequestUrls ==
    {<<>>, <<ApiStats>>, <<ApiUrl>>, <<ApiEditor>>,
     <<ApiEditor, "?", "path", "=", "f">>, <<ApiEditor, "?", "path", "=">>,
     <<"/other">>, <<"/", "/">>}

\* The requests: each URL by GET with a Host header, and the statistics route
\* by POST and without a Host header.
HttpRequests ==
    {[method |-> "GET", url |-> u, host |-> <<"localhost">>] : u \in RequestUrls}
    \cup {[method |-> "POST", url |-> <<ApiStats>>, host |-> <<"localhost">>],
          [method |-> "GET", url |-> <<ApiStats>>, host |-> Undefined]}

\* new URL(url, `http://${host}`): a URL without a host cannot be parsed.
UrlThrows(url) == Len(url) >= 2 /\ url[1] = "/" /\ url[2] = "/"

\* reqUrl.pathname: the URL up to its query.
Pathname(url) == Split(url, "?")[1]

\* reqUrl.searchParams.get(name): the value of the parameter, null (here
\* Undefined) when the query has no such parameter.
SearchParamsGet(url, name) ==
    LET parts == Split(url, "?")
    IN  IF Len(parts) < 2 THEN Undefined
        ELSE LET pair == Split(parts[2], "=")
             IN  IF pair[1] # <<name>> \/ Len(pair) < 2 THEN Undefined
                 ELSE pair[2]

Awaiting == "await"
Returned == "returned"
Threw == "threw outside try"

\* What res.end is called with: a status code and a body.
Answer(req, code, body) ==
    [req EXCEPT !.pc = Returned, !.ended = @ + 1, !.statusCode = <<code>>,
                !.body = body]

\* The handler from its start to its first await, to its return or to a throw
\* that nothing catches.
HandlerStart(r) ==
    LET req == [method |-> r.method, url |-> r.url, host |-> r.host,
                pc |-> Awaiting, route |-> "none", operation |-> "none",
                ended |-> 0, statusCode |-> <<>>, body |-> "none",
                launched |-> 0]
    IN  IF Falsy(r.url) \/ Falsy(r.host)
        THEN Answer(req, 400, "Invalid request: missing URL or Host header")
        ELSE IF UrlThrows(r.url)
        THEN [req EXCEPT !.pc = Threw]
        ELSE IF r.method = "GET" /\ Pathname(r.url) = <<ApiStats>>
        THEN [req EXCEPT !.route = ApiStats]
        ELSE IF r.method = "GET" /\ Pathname(r.url) = <<ApiUrl>>
        THEN [req EXCEPT !.route = ApiUrl]
        ELSE IF r.method = "GET" /\ Pathname(r.url) = <<ApiEditor>>
        THEN IF Falsy(SearchParamsGet(r.url, "path"))
             THEN Answer(req, 400, "Missing path parameter")
             ELSE [req EXCEPT !.route = ApiEditor, !.launched = 1]
        ELSE Answer(req, 404, "Not Found")

\* The handler after its await: the try block ends with res.end, or the catch
\* block does.
HandlerEnd(req, outcome) ==
    IF outcome = "returned"
    THEN Answer([req EXCEPT !.operation = outcome], 200, "result")
    ELSE Answer([req EXCEPT !.operation = outcome], 500, "error")

\* The outcome of `code <path>`: exec reports no error and nothing on stderr,
\* an error, or output on stderr.
EditorOutcomes == {"opened", "exec error", "stderr output"}

\* openInCodeEditor: resolved only without an error and without stderr output.
OpenInCodeEditor(execOutcome) ==
    IF execOutcome = "opened" THEN "returned" ELSE "threw"

\* The requests whose response has not been ended: their connections keep the
\* server from closing.
InFlight(reqs) == {i \in 1..Len(reqs) : reqs[i].pc # Returned}

\* The callback of server.close and what follows it in shutdown(): the promise
\* of shutdownServer is rejected or resolved and the process exits.
CloseCallback(proc, err) ==
    IF err
    THEN [proc EXCEPT !.closing = "failed", !.exitCode = <<1>>]
    ELSE [proc EXCEPT !.closing = "closed", !.exitCode = <<0>>]

\* shutdown() without the test of shuttingDown.
ShutdownWithoutGuard(proc) ==
    [proc EXCEPT !.shuttingDown = TRUE,
                 !.closeCalls = @ + 1,
                 !.closing = "pending"]

\* shutdown() up to its await: the process exits with 1 when a shutdown is in
\* progress, else shuttingDown is set and server.close is called.
Shutdown(proc) ==
    IF proc.shuttingDown
    THEN [proc EXCEPT !.exitCode = <<1>>]
    ELSE [proc EXCEPT !.shuttingDown = TRUE,
                      !.closeCalls = @ + 1,
                      !.closing = "pending"]

\* The process runs: process.exit has not been called.
Running == process.exitCode = <<>>

\* The remote URL of these runs, when there is one.
ProcessRemote == <<"https://host/repo", ".git">>

InitProcess ==
    /\ repoState \in {"plain", "git"}
    /\ gitIndex = <<Fx>>
    /\ excludeFilters = <<>>
    /\ trackedResult = NoCall
    /\ gitLog = <<[hash |-> Hashes[1], author |-> <<"alice">>, date |-> IsoDates[2],
                   subject |-> <<"s">>,
                   changes |-> <<[status |-> "A", paths |-> <<Fx>>]>>]>>
    /\ includedFiles = <<>>
    /\ historyResult = NoCall
    /\ execSyncCalls = 0
    /\ workTree = AllFilesOnDisk
    /\ config = DefaultConfig
    /\ statsResult = NoCall
    /\ visualizerConfig = NoConfig
    /\ remoteUrl \in {NoRemote, ProcessRemote}
    /\ repoUrlResult = NoCall
    /\ requests = <<>>
    /\ process = NewProcess
    /\ rootTree = NoCall

\* A request arrives at the listening server and its handler starts. When the
\* handler throws, its promise is rejected and nothing handles the rejection:
\* depending on the version of Node the process goes on or ends with code 1.
ReceiveHttpRequest ==
    /\ Running
    /\ process.closing = "no"
    /\ Len(requests) < MaxRequests
    /\ \E r \in HttpRequests :
          LET req == HandlerStart(r)
          IN  /\ requests' = Append(requests, req)
              /\ \/ process' = process
                 \/ /\ req.pc = Threw
                    /\ process' = [process EXCEPT !.exitCode = <<1>>]
    /\ UNCHANGED <<visualizerConfig, remoteUrl, repoUrlResult, rootTree>>
    /\ UNCHANGED <<repoState, gitIndex, excludeFilters, trackedResult, gitLog,
                   includedFiles, historyResult, execSyncCalls, workTree, config,
                   statsResult>>

\* The operation a handler awaits ends and the handler runs to its end. When
\* the response is the last one of a server that is being closed, the
\* callback of server.close is called without an error.
OperationEnds ==
    /\ Running
    /\ \E i \in 1..Len(requests), execOutcome \in EditorOutcomes :
          /\ requests[i].pc = Awaiting
          /\ requests[i].route # ApiEditor => execOutcome = "opened"
          /\ LET outcome ==
                     IF requests[i].route = ApiStats
                     THEN GetRepoStats(config, repoState, gitIndex, workTree,
                                       gitLog).outcome
                     ELSE IF requests[i].route = ApiUrl
                     THEN GetGitRepoUrl(repoState, remoteUrl).outcome
                     ELSE OpenInCodeEditor(execOutcome)
                 after == [requests EXCEPT ![i] = HandlerEnd(requests[i], outcome)]
             IN  /\ requests' = after
                 /\ process' = IF process.closing = "pending" /\ InFlight(after) = {}
                                THEN CloseCallback(process, FALSE)
                                ELSE process
    /\ UNCHANGED <<visualizerConfig, remoteUrl, repoUrlResult, rootTree>>
    /\ UNCHANGED <<repoState, gitIndex, excludeFilters, trackedResult, gitLog,
                   includedFiles, historyResult, execSyncCalls, workTree, config,
                   statsResult>>

\* The process receives SIGINT or SIGTERM and runs shutdown(). server.close
\* calls its callback before anything else happens when the server is not
\* running (with an error) or has no connection left (without one).
Signal ==
    /\ Running
    /\ \E sig \in {"SIGINT", "SIGTERM"}, notRunning \in BOOLEAN :
          LET proc == Shutdown([process EXCEPT !.signals = Append(@, sig)])
          IN  process' = IF proc.exitCode # <<>> THEN proc
                         ELSE IF notRunning THEN CloseCallback(proc, TRUE)
                         ELSE IF InFlight(requests) = {} THEN CloseCallback(proc, FALSE)
                         ELSE proc
    /\ UNCHANGED <<visualizerConfig, remoteUrl, repoUrlResult, requests, rootTree>>
    /\ UNCHANGED <<repoState, gitIndex, excludeFilters, trackedResult, gitLog,
                   includedFiles, historyResult, execSyncCalls, workTree, config,
                   statsResult>>

NextProcess == ReceiveHttpRequest \/ OperationEnds \/ Signal

SpecProcess == InitProcess /\ [][NextProcess]_vars

\* --- the log: commits with every kind of status line and header ------------

\* The author names of these runs: a plain one, and one with the character
\* the header fields are separated by.
LogAuthors == {<<"alice">>, <<"al", "|", "ice">>}

\* The subject lines: a plain one, one with the field separator and one with
\* the text the entries are separated by.
LogSubjects == {<<"s">>, <<"s", "|", "t">>, <<"s", Marker, "t">>}

\* The status lines of a commit, in the order git prints them in (by
\* destination path): a/x and x modified; b/x and x modified; the type of x
\* changed; x modified and copied to b/x next to a modification of a/x, as
\* git reports it with diff.renames set to copies.
LogChangeSets ==
    {<<[status |-> "M", paths |-> <<Fax>>], [status |-> "M", paths |-> <<Fx>>]>>,
     <<[status |-> "M", paths |-> <<Fbx>>], [status |-> "M", paths |-> <<Fx>>]>>,
     <<[status |-> "T", paths |-> <<Fx>>]>>,
     <<[status |-> "M", paths |-> <<Fax>>],
       [status |-> "C100", paths |-> <<Fx, Fbx>>],
       [status |-> "M", paths |-> <<Fx>>]>>}

\* The filesToIgnore of these runs: nothing, or everything below b/.
LogIgnores == {<<>>, <<<<"b", "/">>>>}

InitLog ==
    /\ repoState = "git"
    /\ gitIndex = StatsIndex
    /\ excludeFilters = <<>>
    /\ trackedResult = NoCall
    /\ gitLog = <<>>
    /\ config \in {Config(ignore, DefaultMediumCoChanges, DefaultHighCoChanges,
                          DefaultMediumContributors, DefaultHighContributors) :
                       ignore \in LogIgnores}
    /\ includedFiles = GetGitTrackedFiles(repoState, gitIndex, config.filesToIgnore).files
    /\ historyResult = NoCall
    /\ execSyncCalls = 0
    /\ workTree = AllFilesOnDisk
    /\ statsResult = NoCall
    /\ ServerNotStarted

\* `git commit` by an author with a subject line, after the cutoff.
GitCommitAs ==
    /\ historyResult = NoCall
    /\ statsResult = NoCall
    /\ Len(gitLog) < MaxCommits
    /\ \E author \in LogAuthors, subject \in LogSubjects, changes \in LogChangeSets :
          gitLog' = <<[hash |-> Hashes[Len(gitLog) + 1],
                       author |-> author,
                       date |-> IsoDates[2],
                       subject |-> subject,
                       changes |-> changes]>> \o gitLog
    /\ UNCHANGED serverVars
    /\ UNCHANGED <<repoState, gitIndex, excludeFilters, trackedResult,
                   includedFiles, historyResult, execSyncCalls, workTree, config,
                   statsResult>>

NextLog == GitCommitAs \/ CallGetGitHistory \/ CallGetRepoStats

SpecLog == InitLog /\ [][NextLog]_vars

-----------------------------------------------------------------------------
(* Properties of the structure getRepoStatsInD3CompatibleFormat returns.   *)

StatsReturned == statsResult.outcome = "returned"

RECURSIVE Leaves(_, _)
\* The file nodes below a level, each with the directoryPath of the node it
\* is a child of (the empty path at the root).
Leaves(level, parent) ==
    IF level = <<>> THEN <<>>
    ELSE LET node == Head(level)
         IN  (IF "children" \in DOMAIN node
              THEN Leaves(node.children, node.directoryPath)
              ELSE <<[leaf |-> node, parent |-> parent]>>)
             \o Leaves(Tail(level), parent)

RECURSIVE DirectoryPaths(_)
\* The directoryPath of every directory node below a level, one per node.
DirectoryPaths(level) ==
    IF level = <<>> THEN <<>>
    ELSE LET node == Head(level)
         IN  (IF "children" \in DOMAIN node
              THEN <<node.directoryPath>> \o DirectoryPaths(node.children)
              ELSE <<>>)
             \o DirectoryPaths(Tail(level))

\* The file nodes of the structure returned.
FileNodes == LET l == Leaves(statsResult.structure, <<>>)
             IN  [i \in 1..Len(l) |-> l[i].leaf]

\* The largest count of a file node for a single partner file, 0 without any.
PeakCoChange(node) ==
    LET counts == {node.recentlyChangedTogether[i].count :
                       i \in 1..Len(node.recentlyChangedTogether)}
    IN  IF counts = {} THEN 0 ELSE CHOOSE m \in counts : \A n \in counts : n <= m

HighCondition(node) ==
    \/ PeakCoChange(node) >= config.highCoChangesThreshold
    \/ Len(node.recentContributors) >= config.highContributorsThreshold

MediumCondition(node) ==
    \/ PeakCoChange(node) >= config.mediumCoChangesThreshold
    \/ Len(node.recentContributors) >= config.mediumContributorsThreshold

\* C6: a file's tier is high exactly if its peak co-change count is at least
\* the high co-change threshold or it has at least the high contributor
\* threshold of recent contributors.
C6_HighIffHighCondition ==
    StatsReturned =>
        /\ Len(FileNodes) = Len(gitIndex)
        /\ \A node \in Range(FileNodes) :
               node.techDebtLikelyhood = "high" <=> HighCondition(node)

\* A file that is high because its peak equals the high co-change threshold,
\* although the medium condition is false.
C6_Witness ==
    /\ StatsReturned
    /\ \E node \in Range(FileNodes) :
           /\ node.techDebtLikelyhood = "high"
           /\ PeakCoChange(node) = config.highCoChangesThreshold
           /\ Len(node.recentContributors) < config.highContributorsThreshold
           /\ ~MediumCondition(node)

\* C7: a file's tier is medium exactly if the high condition is false and the
\* medium condition holds, and low exactly if neither holds; the peak is the
\* largest count for one partner, not the sum of the counts.
C7_MediumAndLow ==
    StatsReturned =>
        \A node \in Range(FileNodes) :
            /\ node.techDebtLikelyhood = "medium" <=>
                   (~HighCondition(node) /\ MediumCondition(node))
            /\ node.techDebtLikelyhood = "low" <=>
                   (~HighCondition(node) /\ ~MediumCondition(node))

\* A file changed once together with each of two other files, classified low
\* under the shipped thresholds (3 and 6 co-changes).
C7_Witness ==
    /\ StatsReturned
    /\ config = DefaultConfig
    /\ \E node \in Range(FileNodes) :
           /\ Len(node.recentlyChangedTogether) = 2
           /\ \A i \in 1..2 : node.recentlyChangedTogether[i].count = 1
           /\ node.techDebtLikelyhood = "low"

NoRecentActivity(node) ==
    node.recentlyChangedTogether = <<>> /\ node.recentContributors = <<>>

\* C8 as stated: whatever the thresholds, a file with no co-change entry and
\* no recent contributor is low.
C8_QuietFileAlwaysLow ==
    StatsReturned =>
        \A node \in Range(FileNodes) :
            NoRecentActivity(node) => node.techDebtLikelyhood = "low"

\* C8 amended: when all four thresholds are greater than 0, a file with no
\* co-change entry and no recent contributor is low.
C8_QuietFileLowForPositiveThresholds ==
    (/\ StatsReturned
     /\ config.mediumCoChangesThreshold > 0
     /\ config.highCoChangesThreshold > 0
     /\ config.mediumContributorsThreshold > 0
     /\ config.highContributorsThreshold > 0) =>
        \A node \in Range(FileNodes) :
            NoRecentActivity(node) => node.techDebtLikelyhood = "low"

\* A file whose only commit is older than the cutoff, under thresholds of 1.
C8_Witness ==
    /\ StatsReturned
    /\ config.mediumCoChangesThreshold = 1
    /\ config.highCoChangesThreshold = 1
    /\ config.mediumContributorsThreshold = 1
    /\ config.highContributorsThreshold = 1
    /\ \E node \in Range(FileNodes) :
           /\ NoRecentActivity(node)
           /\ node.contributors # <<>>
           /\ node.techDebtLikelyhood = "low"

\* The files getGitTrackedFiles passes on: the index without the ignored files.
TrackedFiles ==
    SelectSeq(gitIndex, LAMBDA p :
        \A f \in Range(config.filesToIgnore) : ~IsSubstring(f, p))

\* The positions of "/" in a path.
Slashes(p) == {i \in 1..Len(p) : p[i] = "/"}

\* The directory a path lies in: the path up to its last "/", the empty path
\* for a file at the root.
DirName(p) ==
    IF Slashes(p) = {} THEN <<>>
    ELSE SubSeq(p, 1, (CHOOSE i \in Slashes(p) : \A j \in Slashes(p) : j <= i) - 1)

\* The last segment of a path.
BaseName(p) == SubSeq(p, Len(DirName(p)) + (IF Slashes(p) = {} THEN 1 ELSE 2), Len(p))

\* The directories that contain a file of the list, directly or not.
DirectoriesOf(files) ==
    UNION {{SubSeq(p, 1, i - 1) : i \in Slashes(p)} : p \in Range(files)}

\* C9: nodes reached through different parents are never merged: every
\* listed file is a leaf of its own, and each leaf is a child of the directory
\* node whose path is the file's full parent directory path.
C9_LeavesUnderOwnParent ==
    StatsReturned =>
        LET l == Leaves(statsResult.structure, <<>>)
        IN  /\ Len(l) = Len(TrackedFiles)
            /\ \A f \in Range(TrackedFiles) :
                   Cardinality({i \in 1..Len(l) : l[i].leaf.filePath = f})
                       = Cardinality({i \in 1..Len(TrackedFiles) : TrackedFiles[i] = f})
            /\ \A i \in 1..Len(l) : l[i].parent = DirName(l[i].leaf.filePath)

\* Two files with the same name in different directories, one of them two
\* levels deep.
C9_Witness ==
    /\ StatsReturned
    /\ LET l == Leaves(statsResult.structure, <<>>)
       IN  \E i, j \in 1..Len(l) :
               /\ BaseName(l[i].leaf.filePath) = BaseName(l[j].leaf.filePath)
               /\ l[i].parent # l[j].parent
               /\ Cardinality(Slashes(l[i].leaf.filePath)) = 2

\* C10: for a list of distinct file paths, each distinct directory path and
\* each distinct file path occurs in exactly one node of the structure.
C10_OneNodePerPath ==
    (StatsReturned /\ ~Unmerged) =>
        LET d == DirectoryPaths(statsResult.structure)
        IN  /\ \A f \in Range(TrackedFiles) :
                   Cardinality({i \in 1..Len(FileNodes) : FileNodes[i].filePath = f}) = 1
            /\ \A p \in DirectoriesOf(TrackedFiles) :
                   Cardinality({i \in 1..Len(d) : d[i] = p}) = 1

RECURSIVE WithoutRepeats(_)
\* A list without the later occurrences of its elements.
WithoutRepeats(s) ==
    IF s = <<>> THEN <<>>
    ELSE LET r == WithoutRepeats(SubSeq(s, 1, Len(s) - 1))
         IN  IF s[Len(s)] \in Range(r) THEN r ELSE Append(r, s[Len(s)])

\* C11: inserting a file path that is already in the tree leaves the tree
\* unchanged: the structure built from a list of tracked files is the one
\* built from the list without its repeated paths.
C11_InsertionIdempotent ==
    StatsReturned =>
        statsResult.structure =
            GetRepoStats(config, repoState, WithoutRepeats(gitIndex),
                         workTree, gitLog).structure

-----------------------------------------------------------------------------
(* Properties of the statistics of a file.                                 *)

\* The commit list the statistics are aggregated from.
CommitList == GetGitHistory(repoState, TrackedFiles, gitLog).commits

\* The positions of the commits of a list that changed both f and g.
CommitsWithBoth(commits, f, g) ==
    {i \in 1..Len(commits) :
         f \in Range(commits[i].changedFiles) /\ g \in Range(commits[i].changedFiles)}

\* The commits of a list newer than the cutoff.
NewerThanCutoff(commits) ==
    SelectSeq(commits, LAMBDA c : c.date > config.recentCutoff)

\* The positions of the entries a file node has for g.
CoChangeEntries(node, g) ==
    {i \in 1..Len(node.recentlyChangedTogether) :
         node.recentlyChangedTogether[i].filePath = g}

\* C12: the co-change count of f for another path g is the number of
\* commits newer than the cutoff that changed both; g has no entry when
\* there is no such commit, at most one otherwise, and f has none for itself.
C12_CoChangeCounts ==
    StatsReturned =>
        LET recent == NewerThanCutoff(CommitList)
            nodes == FileNodes
        IN  \A k \in 1..Len(nodes) :
                LET node == nodes[k]
                IN  /\ CoChangeEntries(node, node.filePath) = {}
                    /\ \A g \in Range(IndexPaths) \ {node.filePath} :
                           LET n == Cardinality(CommitsWithBoth(recent, node.filePath, g))
                               e == CoChangeEntries(node, g)
                           IN  IF n = 0 THEN e = {}
                               ELSE /\ Cardinality(e) = 1
                                    /\ \A i \in e :
                                           node.recentlyChangedTogether[i].count = n

\* A file changed together with another one by two commits, only one of them
\* newer than the cutoff: its count for that file is 1.
C12_Witness ==
    /\ StatsReturned
    /\ LET commits == CommitList
           recent == NewerThanCutoff(commits)
       IN  \E node \in Range(FileNodes) :
               \E g \in Range(IndexPaths) \ {node.filePath} :
                   /\ Cardinality(CommitsWithBoth(recent, node.filePath, g)) = 1
                   /\ Cardinality(CommitsWithBoth(commits, node.filePath, g)) = 2
                   /\ \E i \in CoChangeEntries(node, g) :
                          node.recentlyChangedTogether[i].count = 1

\* C14: the gitHistory of a file is the subsequence of the commit list made
\* of the commits that changed it, in the order of the list, and its last
\* element is the most recent commit that changed the file.
C14_FileHistoryOldestFirst ==
    StatsReturned =>
        \A node \in Range(FileNodes) :
            /\ node.gitHistory =
                   SelectSeq(CommitList,
                             LAMBDA c : node.filePath \in Range(c.changedFiles))
            /\ \A c \in Range(node.gitHistory) :
                   c.date <= node.gitHistory[Len(node.gitHistory)].date

\* The tracked files that are not in the work tree.
MissingFiles == {p \in Range(TrackedFiles) : p \notin DOMAIN workTree}

\* C15: when counting the lines of a file fails, the run still completes:
\* the file gets a record with a line count of at least 1, and the record of
\* every other file is the one of a run without the failure.
C15_MissingFileGetsSentinel ==
    LET ideal == GetRepoStats(config, repoState, gitIndex, AllFilesOnDisk, gitLog)
    IN  (statsResult # NoCall /\ MissingFiles # {} /\ ideal.outcome = "returned") =>
            /\ StatsReturned
            /\ LET got == Leaves(statsResult.structure, <<>>)
                   exp == Leaves(ideal.structure, <<>>)
               IN  /\ Len(got) = Len(exp)
                   /\ \A i \in 1..Len(got) :
                          IF got[i].leaf.filePath \in MissingFiles
                          THEN got[i].leaf.linesOfCode >= 1
                          ELSE got[i] = exp[i]

\* The authors of the commits among the given ones that add or modify f.
AuthorsOf(f, commits) ==
    {c.author : c \in {d \in Range(commits) :
                           \E ch \in Range(d.changes) :
                               ch.status \in {"A", "M"} /\ f \in Range(ch.paths)}}

\* The commits of the repository newer than the cutoff of the config passed.
RecentCommits ==
    SelectSeq(gitLog, LAMBDA c : DateGetTime(<<c.date>>) > config.recentCutoff)

\* C13: the contributors of a file are the authors of all the commits of the
\* history that add or modify it, each once, and its recentContributors are
\* those of them with such a commit newer than the cutoff.
C13_ContributorsAllTime ==
    StatsReturned =>
        \A node \in Range(FileNodes) :
            /\ Range(node.contributors) = AuthorsOf(node.filePath, gitLog)
            /\ Len(node.contributors) = Cardinality(Range(node.contributors))
            /\ Range(node.recentContributors) = AuthorsOf(node.filePath, RecentCommits)
            /\ Len(node.recentContributors) = Cardinality(Range(node.recentContributors))

\* C19: the structure returned depends on the config passed and on the
\* repository only: a run that follows another run with the same config on
\* the same repository returns the same structure.
C19_OutputDependsOnPassedConfigOnly ==
    [][(StatsReturned /\ StatsReturned'
            /\ config' = config /\ gitIndex' = gitIndex /\ gitLog' = gitLog
            /\ workTree' = workTree /\ repoState' = repoState)
          => statsResult'.structure = statsResult.structure]_vars

\* C18: every path getGitTrackedFiles returns is the path of a file of the
\* index as it is on disk, without the quotes and the octal escapes of the
\* listing, whatever the filters; a quoted entry is no error.
C18_PathsDecoded ==
    trackedResult # NoCall =>
        /\ trackedResult.outcome = "returned"
        /\ \A f \in Range(trackedResult.files) : f \in Range(gitIndex)

-----------------------------------------------------------------------------
(* Properties of getGitRepoUrl and of the server.                          *)

\* A URL without its trailing ".git", if it has one.
WithoutGitSuffix(u) ==
    IF u[Len(u)] = ".git" THEN SubSeq(u, 1, Len(u) - 1) ELSE u

\* C17: getGitRepoUrl returns the URL of the remote origin with only a
\* trailing ".git" removed, the URL itself when it has no such suffix, and
\* fails when no remote origin is configured.
C17_RepoUrlSuffixStripped ==
    repoUrlResult # NoCall =>
        IF remoteUrl = NoRemote
        THEN repoUrlResult.outcome = "threw"
        ELSE /\ repoUrlResult.outcome = "returned"
             /\ repoUrlResult.url = WithoutGitSuffix(remoteUrl)

\* C16: a request whose file listing command or log command failed is
\* answered with status 500 and the error, never with a structure, and the
\* failed command has been run once for it; the listing command fails in a
\* directory that is no repository.
C16_CommandFailureFailsRequest ==
    \A i \in 1..Len(requests) :
        LET req == requests[i]
        IN  /\ (req.pc = Responded /\ repoState # "git") =>
                   req.err = "Error in getGitTrackedFiles"
            /\ req.err = "Error in getGitTrackedFiles" =>
                   /\ req.response.statusCode = 500
                   /\ DOMAIN req.response.json = {"error", "err"}
                   /\ req.lsFilesCalls = 1
                   /\ req.gitLogCalls = 0
            /\ req.err = "Error in getGitHistory" =>
                   /\ req.response.statusCode = 500
                   /\ DOMAIN req.response.json = {"error", "err"}
                   /\ req.lsFilesCalls = 1
                   /\ req.gitLogCalls = 1

\* A request that failed on the log command (files added, nothing committed)
\* next to a request that was answered with a structure.
C16_Witness ==
    \E i, j \in 1..Len(requests) :
        /\ requests[i].err = "Error in getGitHistory"
        /\ requests[i].response.statusCode = 500
        /\ requests[j].pc = Responded
        /\ requests[j].response.statusCode = 200

\* The response is the one the handler sends for this result of
\* getRepoStatsInD3CompatibleFormat.
AnswerTo(response, result) ==
    IF result.outcome = "returned"
    THEN response = RespondOk(result.structure)
    ELSE response.statusCode = 500 /\ DOMAIN response.json = {"error", "err"}

\* C20: whatever the other requests do, a request that is answered while the
\* index still lists the files the request has listed gets the response of a
\* run of its own on the repository as it is, and has run the file listing
\* and the log command itself.
C20_RequestsAreIndependent ==
    [][\A i \in 1..Len(requests) :
          LET alone == GetRepoStats(config, repoState, gitIndex, workTree, gitLog)
              listed == GetGitTrackedFiles(repoState, gitIndex, config.filesToIgnore)
          IN  (/\ requests[i].pc # Responded
               /\ requests'[i].pc = Responded
               /\ requests[i].pc = AwaitingLineCounts => requests[i].files = listed.files)
              => /\ AnswerTo(requests'[i].response, alone)
                 /\ requests'[i].lsFilesCalls = 1
                 /\ requests'[i].gitLogCalls = alone.spawned]_vars

\* A later request has been answered with a structure while an earlier one,
\* which listed other files, still waits for its line counts.
C20_Witness ==
    \E i, j \in 1..Len(requests) :
        /\ i < j
        /\ requests[i].pc = AwaitingLineCounts
        /\ requests[j].pc = Responded
        /\ requests[j].response.statusCode = 200
        /\ requests[j].files # requests[i].files

\* C21: the `git ls-files` subprocess of a request whose caller has closed
\* the connection does not run to completion: the handler of such a request
\* never goes on with the outcome of the subprocess.
C21_AbandonedSubprocessTerminated ==
    [][\A i \in 1..Len(requests) :
          (requests[i].closed /\ requests[i].pc = AwaitingTrackedFiles)
              => requests'[i].pc = AwaitingTrackedFiles]_vars

RECURSIVE ChangedFilesBelow(_)
\* The paths in the changedFiles of the commits of the file nodes below a
\* level.
ChangedFilesBelow(level) ==
    IF level = <<>> THEN {}
    ELSE LET node == Head(level)
         IN  (IF "children" \in DOMAIN node
              THEN ChangedFilesBelow(node.children)
              ELSE UNION {Range(c.changedFiles) : c \in Range(node.gitHistory)})
             \cup ChangedFilesBelow(Tail(level))

\* C25: the stages of a run follow one another: the log command is started
\* only by a run whose file listing and line counts have ended without an
\* error, the commits of the structure are filtered by the files that run
\* has listed, a run never goes back to an earlier stage, and a run in which
\* a stage has failed is answered at once and starts nothing more.
C25_StagesStrictlyOrdered ==
    [][\A i \in 1..Len(requests) :
          LET req == requests[i]
              after == requests'[i]
          IN  /\ after.gitLogCalls # req.gitLogCalls =>
                     /\ req.pc = AwaitingLineCounts
                     /\ req.err = "none"
                     /\ req.gitLogCalls = 0
                     /\ after.files = req.files
              /\ after.pc # req.pc =>
                     <<req.pc, after.pc>> \in
                         {<<AwaitingTrackedFiles, AwaitingLineCounts>>,
                          <<AwaitingTrackedFiles, Responded>>,
                          <<AwaitingLineCounts, Responded>>}
              /\ (after.pc = Responded /\ after.err = "none") =>
                     /\ after.gitLogCalls = (IF after.files = <<>> THEN 0 ELSE 1)
                     /\ after.response.statusCode = 200
                     /\ ChangedFilesBelow(after.response.json.array)
                            \subseteq Range(after.files)
              /\ after.err # "none" =>
                     /\ after.pc = Responded
                     /\ DOMAIN after.response.json = {"error", "err"}
                     /\ after.err = "Error in getGitTrackedFiles" =>
                            after.files = <<>> /\ after.gitLogCalls = 0
                     /\ after.err = "ENOENT" => after.gitLogCalls = 0
              /\ req.pc = Responded => after = req]_vars

\* A run that was answered with the statistics of the files it had listed
\* next to a run that failed while counting lines and started no log command.
C25_Witness ==
    \E i, j \in 1..Len(requests) :
        /\ requests[i].pc = Responded
        /\ requests[i].err = "none"
        /\ requests[i].gitLogCalls = 1
        /\ ChangedFilesBelow(requests[i].response.json.array) # {}
        /\ requests[j].err = "ENOENT"
        /\ requests[j].gitLogCalls = 0

\* The request is a GET of the route and has a URL and a Host header.
IsRoute(r, api) ==
    /\ r.method = "GET"
    /\ ~Falsy(r.url)
    /\ ~Falsy(r.host)
    /\ r.url[1] = api

\* The URL has a path parameter with a value.
HasPathValue(r) ==
    \E k \in 1..(Len(r.url) - 2) : r.url[k] = "path" /\ r.url[k + 1] = "="

\* C28: the response of every request whose handler has started is ended
\* once when the handler has come to its end and never twice; the status is
\* 400 exactly for a missing URL or Host header or a missing path parameter
\* of the editor route (no editor is launched then), 404 exactly for any
\* other method or path than the three routes, 500 exactly when the
\* operation threw and 200 exactly when it ended without an error.
C28_AnsweredExactlyOnce ==
    \A i \in 1..Len(requests) :
        LET r == requests[i]
            invalid == Falsy(r.url) \/ Falsy(r.host)
            missingPath == IsRoute(r, ApiEditor) /\ ~HasPathValue(r)
            routed == \E api \in {ApiStats, ApiUrl, ApiEditor} : IsRoute(r, api)
        IN  /\ r.ended <= 1
            /\ r.pc # Awaiting => r.ended = 1
            /\ r.ended = 1 =>
                   /\ r.statusCode \in {<<200>>, <<400>>, <<404>>, <<500>>}
                   /\ r.statusCode = <<400>> <=> (invalid \/ missingPath)
                   /\ r.statusCode = <<400>> => r.launched = 0
                   /\ r.statusCode = <<404>> <=> (~invalid /\ ~routed)
                   /\ r.statusCode = <<500>> <=> r.operation = "threw"
                   /\ r.statusCode = <<200>> <=> r.operation = "returned"

\* C29: server.close is called at most once, by the first signal; the
\* process exits with 0 exactly if that close succeeds and with 1 if it
\* fails; a signal that arrives while the shutdown is in progress makes the
\* process exit with 1 and calls server.close no second time.
C29_ShutdownClosesOnce ==
    /\ process.closeCalls <= 1
    /\ process.closeCalls = (IF process.signals = <<>> THEN 0 ELSE 1)
    /\ process.exitCode = <<0>> <=> process.closing = "closed"
    /\ process.closing = "failed" => process.exitCode = <<1>>
    /\ Len(process.signals) > 1 =>
           /\ Len(process.signals) = 2
           /\ process.closing = "pending"
           /\ process.exitCode = <<1>>
    /\ (Len(process.signals) = 1 /\ process.closing = "pending") => Running

\* A second signal has arrived while server.close waited for a connection
\* to end.
C29_Witness ==
    /\ Len(process.signals) = 2
    /\ \E i \in InFlight(requests) : requests[i].route = ApiStats
    /\ process.closeCalls = 1
    /\ process.exitCode = <<1>>

-----------------------------------------------------------------------------
(* Properties of the tree the client rebuilds.                             *)

RECURSIVE TreeNodes(_)
\* The nodes below a node of the client's tree, each with the fullPath of the
\* node it is a child of.
TreeNodes(node) ==
    LET Below[i \in 0..Len(node.children)] ==
            IF i = 0 THEN <<>>
            ELSE Below[i - 1]
                 \o <<[node |-> node.children[i], parent |-> node.fullPath]>>
                 \o TreeNodes(node.children[i])
    IN  Below[Len(node.children)]

\* C30: the tree the client rebuilds has exactly one directory node for every
\* directory path of the structure and exactly one leaf for every file path
\* of it, also when a directory path is in several entries of the structure,
\* and every file entry is the piece of a leaf that is a child of the node of
\* its parent directory path.
C30_ClientTreeOneNodePerPath ==
    rootTree # NoCall =>
        LET received == JsonRoundTrip(statsResult.structure)
            entries == Leaves(received, <<>>)
            filePaths == {entries[i].leaf.filePath : i \in 1..Len(entries)}
            dirPaths == Range(DirectoryPaths(received))
            nodes == TreeNodes(rootTree.tree)
            leaves == {i \in 1..Len(nodes) : "piece" \in DOMAIN nodes[i].node}
            dirs == (1..Len(nodes)) \ leaves
        IN  /\ \A p \in dirPaths :
                   Cardinality({i \in dirs : nodes[i].node.fullPath = p}) = 1
            /\ \A i \in dirs : nodes[i].node.fullPath \in dirPaths
            /\ \A f \in filePaths :
                   Cardinality({i \in leaves : nodes[i].node.fullPath = f}) = 1
            /\ \A i \in leaves : nodes[i].node.fullPath \in filePaths
            /\ \A k \in 1..Len(entries) :
                   \E i \in leaves :
                       /\ nodes[i].node.piece = entries[k].leaf
                       /\ nodes[i].node.fullPath = entries[k].leaf.filePath
                       /\ nodes[i].parent = DirName(entries[k].leaf.filePath)

\* A tree rebuilt from a structure that has two entries for the directory
\* a/b, each with one file.
C30_Witness ==
    /\ rootTree # NoCall
    /\ LET d == DirectoryPaths(statsResult.structure)
       IN  \E i, j \in 1..Len(d) : i # j /\ d[i] = d[j] /\ d[i] = <<"a", "/", "b">>
    /\ \E n \in Range(TreeNodes(rootTree.tree)) :
           /\ "piece" \in DOMAIN n.node
           /\ n.parent = <<"a", "/", "b">>

-----------------------------------------------------------------------------
(* Properties of the parsing of status lines and header lines.             *)

\* C22: every path in the changedFiles of a returned commit is on a status
\* line of that commit whose status is A or M; lines with any other status
\* contribute no path.
C22_OnlyAddedOrModified ==
    HistoryReturned =>
        \A r \in Range(historyResult.commits) :
            \A c \in Range(gitLog) :
                r.commitHash = <<c.hash>> =>
                    \A p \in Range(r.changedFiles) :
                        \E ch \in Range(c.changes) :
                            ch.status \in {"A", "M"} /\ p \in Range(ch.paths)

\* C26: the changedFiles of a returned commit has no path twice, and so no
\* co-change count of a file is larger than the number of commits.
C26_ChangedFilesIsSet ==
    /\ HistoryReturned =>
           \A r \in Range(historyResult.commits) :
               \A i, j \in 1..Len(r.changedFiles) :
                   i # j => r.changedFiles[i] # r.changedFiles[j]
    /\ StatsReturned =>
           \A node \in Range(FileNodes) :
               \A i \in 1..Len(node.recentlyChangedTogether) :
                   node.recentlyChangedTogether[i].count <= Len(gitLog)

\* The commit has a status line that getGitHistory keeps for includedFiles.
HasIncludedLine(c) ==
    \E ch \in Range(c.changes) :
        ch.status # "D" /\ ch.paths[1] \in Range(includedFiles)

\* C27: whatever the author name and the subject line of a commit contain,
\* the record parsed for it has the commit's hash, author name, author
\* timestamp and whole subject line.
C27_HeaderFieldsExact ==
    HistoryReturned =>
        /\ \A c \in Range(gitLog) :
               HasIncludedLine(c) =>
                   \E r \in Range(historyResult.commits) : r.commitHash = <<c.hash>>
        /\ \A r \in Range(historyResult.commits) :
               \E c \in Range(gitLog) :
                   /\ r.commitHash = <<c.hash>>
                   /\ r.authorName = c.author
                   /\ r.date = DateGetTime(<<c.date>>)
                   /\ r.comment = c.subject

-----------------------------------------------------------------------------
(* Properties of the co-change maps of tracked and untracked paths.        *)

\* The count a file node has for g, 0 without an entry.
CoChangeCount(node, g) ==
    LET e == CoChangeEntries(node, g)
    IN  IF e = {} THEN 0
        ELSE node.recentlyChangedTogether[CHOOSE i \in e : TRUE].count

\* C23: for two tracked files f and g, the count f has for g is the count g
\* has for f.
C23_CoChangeSymmetric ==
    StatsReturned =>
        LET nodes == FileNodes
        IN  \A i, j \in 1..Len(nodes) :
                nodes[i].filePath # nodes[j].filePath =>
                    CoChangeCount(nodes[i], nodes[j].filePath)
                        = CoChangeCount(nodes[j], nodes[i].filePath)

\* The paths of the repository that are not in the tracked file list.
UntrackedPaths == Range(IndexPaths) \ Range(TrackedFiles)

\* The commits of the log that are newer than the cutoff and have a status
\* line A or M for f and one for g.
RecentCommitsOfBoth(f, g) ==
    {c \in Range(gitLog) :
         /\ DateGetTime(<<c.date>>) > config.recentCutoff
         /\ \A p \in {f, g} :
                \E ch \in Range(c.changes) :
                    ch.status \in {"A", "M"} /\ ch.paths = <<p>>}

\* C24 as stated: a path g outside the tracked file list that a recent
\* commit added or modified together with a tracked file f has an entry in
\* the co-change map of f, and no node of its own.
C24_UntrackedStillCounted ==
    StatsReturned =>
        \A node \in Range(FileNodes) :
            \A g \in UntrackedPaths :
                RecentCommitsOfBoth(node.filePath, g) # {} =>
                    CoChangeEntries(node, g) # {}

\* C24 amended: a path g outside the tracked file list has no entry in the
\* co-change map of any file, no statistics record and no node, also when a
\* recent commit added or modified it together with a tracked file.
C24_UntrackedNeverCounted ==
    StatsReturned =>
        \A node \in Range(FileNodes) :
            /\ node.filePath \notin UntrackedPaths
            /\ \A g \in UntrackedPaths : CoChangeEntries(node, g) = {}

\* A recent commit modified x together with b/x, which filesToIgnore keeps
\* out of the tracked file list, and together with nothing else: x has a
\* recent contributor and an empty co-change map.
C24_Witness ==
    /\ StatsReturned
    /\ Fbx \in UntrackedPaths
    /\ RecentCommitsOfBoth(Fx, Fbx) # {}
    /\ \E node \in Range(FileNodes) :
           /\ node.filePath = Fx
           /\ node.recentContributors # <<>>
           /\ node.recentlyChangedTogether = <<>>

====
